---- MODULE Spec2Model ----
(***************************************************************************)
(* Model of the DocSignals document analysis pipeline:                     *)
(*   src/src/analysis/compare.ts   treesEqual, analyzeDomMetrics, compare  *)
(*   src/unnamed/part_002          analyze (1-13), checkSemantics (23-194) *)
(*   normalize.ts is not among the sources; normalize follows section 4.1  *)
(*   of the specification.                                                 *)
(*                                                                         *)
(* A document is what DOMParser.parseFromString(html, 'text/html') hands   *)
(* to the analyzers: the html element (only its lang attribute is read)    *)
(* and the body subtree.  The body subtree is a sequence of element nodes  *)
(* in document order (pre-order); nodes[1] is body at depth 1, and the     *)
(* parent of node i is the last node before i whose depth is one less.     *)
(* Every element carries its own text placed before its child elements.    *)
(* Text and attribute values are sequences of one-character strings, so    *)
(* that trim, toLowerCase, startsWith and length are computed.             *)
(*                                                                         *)
(* Numbers: divRatio is kept as the exact fraction num/den and compared    *)
(* by cross-multiplication; coveragePercent is a JavaScript number that    *)
(* may be NaN, kept as [kind, n].  Both agree with IEEE doubles for all    *)
(* documents below 2^50 elements or characters, except for the rounding   *)
(* of exact .5 percentages, which none of the bounded inputs produce.      *)
(***************************************************************************)
EXTENDS Integers, Sequences, FiniteSets, TLC

VARIABLES
    \* SpecCompare: compare(trees, domMetrics)
    trees,          \* the fingerprints handed to compare
    structure,      \* the StructureResult it returned, or None
    \* SpecSemantics, SpecLinks: checkSemantics(html)
    doc,            \* the parsed document
    semantics,      \* the SemanticResult it returned, or None
    \* SpecMetrics: analyzeDomMetrics(html) on the same document
    metrics,        \* the DomMetrics it returned, or None
    \* Spec: analyze(htmlSamples, url), two invocations in a row
    htmlSamples,    \* the samples of the current invocation
    url,            \* its url argument
    result,         \* its AnalysisResult, or None
    prev,           \* the previous invocation: None, or its first sample, url, result
    \* SpecInterleave: invocations of analyze that run statement by statement
    calls,          \* per invocation: its arguments, the statement it is at, its result
    frames,         \* per activation: the local variables of analyze and its callees
    overlapped,     \* has a statement run while another invocation was under way
    \* SpecRun: the home page and its analysis runs
    page,           \* the state of HomePage: url, state, fetchCount, fetchWarnings
    history,        \* the analyses stored in localStorage, newest first
    run,            \* the run under way: None, or its local variables and position
    ran,            \* what the last finished run did, or None
    runs,           \* the runs that passed validateUrl so far
    fetches,        \* the fetches of those runs
    \* SpecWorker, SpecDevProxy: the proxies
    rateLimitMap,   \* per client IP: absent, or [count, resetAt]
    now,            \* Date.now()
    spent,          \* how often the clock has advanced, how many requests were counted
    response,       \* the response to the last request, or None
    probe,          \* an interval under observation: None, or [from, passed, opens]
    request,        \* the request the dev proxy is serving: None, or its state
    upstream,       \* the targets the dev proxy has requested for it, in order
    \* SpecInterpret: generateInterpretations(structure, semantics, fetchCount)
    interpretations, \* the list it returned with its fetchCount argument, or None
    edits           \* how many fields of its arguments differ from the first ones

vars == <<trees, structure, doc, semantics, metrics, htmlSamples, url, result, prev,
          calls, frames, overlapped, page, history, run, ran, runs, fetches,
          rateLimitMap, now, spent, response, probe, request, upstream,
          interpretations, edits>>
compareVars == <<trees, structure>>
semanticsVars == <<doc, semantics>>
metricsVars == <<metrics>>
analyzeVars == <<htmlSamples, url, result, prev>>
callVars == <<calls, frames, overlapped>>
pageVars == <<page, history, run, ran, runs, fetches>>
proxyVars == <<rateLimitMap, now, spent, response, probe, request, upstream>>
interpretVars == <<interpretations, edits>>
\* the variables of the first three specifications
coreVars == <<compareVars, semanticsVars, analyzeVars>>
\* the variables of the specifications that follow the first three
laterVars == <<metricsVars, callVars, pageVars, proxyVars, interpretVars>>
\* the variables of the other later specifications
notMetrics == <<callVars, pageVars, proxyVars, interpretVars>>
notCalls == <<metricsVars, pageVars, proxyVars, interpretVars>>
notPage == <<metricsVars, callVars, proxyVars, interpretVars>>
notProxy == <<metricsVars, callVars, pageVars, interpretVars>>
notInterpret == <<metricsVars, callVars, pageVars, proxyVars>>

None == [kind |-> "none"]

\* the specifications that follow the first three have not started
IdleMetrics == metrics = None
IdleCalls == calls = <<>> /\ frames = <<>> /\ overlapped = FALSE
IdlePage ==
    /\ page = None /\ history = <<>> /\ run = None /\ ran = None
    /\ runs = 0 /\ fetches = 0
IdleProxy ==
    /\ rateLimitMap = <<>> /\ now = 0 /\ spent = None /\ response = None
    /\ probe = None /\ request = None /\ upstream = <<>>
IdleInterpret == interpretations = None /\ edits = 0
IdleLater == IdleMetrics /\ IdleCalls /\ IdlePage /\ IdleProxy /\ IdleInterpret

----------------------------------------------------------------------------
\* Bounds of the model.

\* most fingerprints handed to compare in SpecCompare
MaxTrees == 3
\* most child tags of one fingerprint in SpecCompare
MaxChildTags == 2
\* most elements below body of the document of SpecSemantics
MaxNodes == 3
\* most samples of one analyze invocation in Spec
MaxSamples == 3

----------------------------------------------------------------------------
\* Strings as sequences of characters.

Range(s) == {s[i] : i \in DOMAIN s}

Min2(a, b) == IF a <= b THEN a ELSE b
Max2(a, b) == IF a >= b THEN a ELSE b

\* String.prototype.toLowerCase, one character
UpperToLower ==
    [A |-> "a", B |-> "b", C |-> "c", D |-> "d", E |-> "e", F |-> "f", G |-> "g",
     H |-> "h", I |-> "i", J |-> "j", K |-> "k", L |-> "l", M |-> "m", N |-> "n",
     O |-> "o", P |-> "p", Q |-> "q", R |-> "r", S |-> "s", T |-> "t", U |-> "u",
     V |-> "v", W |-> "w", X |-> "x", Y |-> "y", Z |-> "z"]

LowerChar(c) == IF c \in DOMAIN UpperToLower THEN UpperToLower[c] ELSE c

\* String.prototype.toLowerCase
ToLowerCase(s) == [i \in DOMAIN s |-> LowerChar(s[i])]

\* the white space String.prototype.trim removes (the characters the inputs use)
WhiteSpace == {" ", "\t", "\n"}

\* String.prototype.trim
Trim(s) ==
    LET keep == {i \in DOMAIN s : s[i] \notin WhiteSpace}
    IN  IF keep = {} THEN <<>>
        ELSE LET lo == CHOOSE i \in keep : \A j \in keep : i <= j
                 hi == CHOOSE i \in keep : \A j \in keep : i >= j
             IN  SubSeq(s, lo, hi)

\* String.prototype.startsWith
StartsWith(s, p) == Len(s) >= Len(p) /\ SubSeq(s, 1, Len(p)) = p

JAVASCRIPT_PREFIX == <<"j", "a", "v", "a", "s", "c", "r", "i", "p", "t", ":">>
LAZY == <<"l", "a", "z", "y">>

----------------------------------------------------------------------------
\* The parsed document.

\* Element.tagName of an HTML element: the local name in upper case
TagNameTable ==
    [body |-> "BODY", h1 |-> "H1", h2 |-> "H2", h3 |-> "H3", h4 |-> "H4",
     h5 |-> "H5", h6 |-> "H6", main |-> "MAIN", nav |-> "NAV",
     header |-> "HEADER", footer |-> "FOOTER", aside |-> "ASIDE",
     article |-> "ARTICLE", section |-> "SECTION", figure |-> "FIGURE",
     div |-> "DIV", span |-> "SPAN", a |-> "A", img |-> "IMG", p |-> "P",
     time |-> "TIME", ol |-> "OL", ul |-> "UL", dl |-> "DL",
     table |-> "TABLE", thead |-> "THEAD", th |-> "TH", tr |-> "TR",
     script |-> "SCRIPT", style |-> "STYLE", noscript |-> "NOSCRIPT"]

\* elements of the SVG namespace keep the case of their local name
SvgNames == {"svg", "path"}

TagName(el) ==
    IF el.localName \in SvgNames THEN el.localName ELSE TagNameTable[el.localName]

\* toLowerCase of a tag name
TagToLowerCase(t) ==
    IF t \in SvgNames THEN t
    ELSE CHOOSE n \in DOMAIN TagNameTable : TagNameTable[n] = t

\* parseInt(h.tagName[1], 10) of a heading element
HeadingDigit == [H1 |-> 1, H2 |-> 2, H3 |-> 3, H4 |-> 4, H5 |-> 5, H6 |-> 6]

\* Element.hasAttribute / getAttribute; attrs is a set of <<name, value>>
HasAttribute(el, name) == \E kv \in el.attrs : kv[1] = name
GetAttribute(el, name) == (CHOOSE kv \in el.attrs : kv[1] = name)[2]

Elem(localName, text, attrs) ==
    [localName |-> localName, text |-> text, attrs |-> attrs]

At(el, depth) ==
    [localName |-> el.localName, text |-> el.text, attrs |-> el.attrs, depth |-> depth]

\* the elements of the document, in document order
Nodes(d) == d.nodes

\* Node.parentElement, as an index (0: the parent is not below body)
ParentOf(nodes, i) ==
    LET c == {j \in 1..(i - 1) : nodes[j].depth = nodes[i].depth - 1}
    IN  IF c = {} THEN 0 ELSE CHOOSE j \in c : \A k \in c : k <= j

\* a is a proper ancestor of i
IsAncestor(nodes, a, i) ==
    a < i /\ \A k \in (a + 1)..i : nodes[k].depth > nodes[a].depth

\* Element.children, as indices in order
ChildrenOf(nodes, a) ==
    {i \in DOMAIN nodes : IsAncestor(nodes, a, i) /\ nodes[i].depth = nodes[a].depth + 1}

\* a set of indices as the ascending sequence
RECURSIVE SortedSeq(_)
SortedSeq(S) ==
    IF S = {} THEN <<>>
    ELSE LET m == CHOOSE x \in S : \A y \in S : x <= y
         IN  <<m>> \o SortedSeq(S \ {m})

\* querySelectorAll of a list of type selectors, below the element root
\* (root = 0: the whole document), in document order
QuerySelectorAll(nodes, root, names) ==
    SortedSeq({i \in DOMAIN nodes :
                  /\ nodes[i].localName \in names
                  /\ (root = 0 \/ IsAncestor(nodes, root, i))})

\* Node.textContent: the text of the element and of its descendants
RECURSIVE ConcatText(_, _, _)
ConcatText(nodes, a, i) ==
    IF i > Len(nodes) \/ (i > a /\ ~IsAncestor(nodes, a, i)) THEN <<>>
    ELSE nodes[i].text \o ConcatText(nodes, a, i + 1)

TextContent(nodes, a) == ConcatText(nodes, a, a)

----------------------------------------------------------------------------
\* src/src/analysis/compare.ts

\* mutant of treesEqual: the childTags arrays are compared as objects; every call
\* of normalize builds a new array, so two fingerprints never share one
treesEqual_ByReference(a, b) ==
    IF a.tag # b.tag THEN FALSE
    ELSE FALSE

\* mutant of treesEqual: the element-wise loop is missing, lengths alone decide
treesEqual_LengthOnly(a, b) ==
    IF a.tag # b.tag THEN FALSE
    ELSE IF Len(a.childTags) # Len(b.childTags) THEN FALSE
    ELSE TRUE

\* mutant of treesEqual: the loop returns false on equal child tags
treesEqual_InvertedLoop(a, b) ==
    IF a.tag # b.tag THEN FALSE
    ELSE IF Len(a.childTags) # Len(b.childTags) THEN FALSE
    ELSE \A i \in 1..Len(a.childTags) : a.childTags[i] # b.childTags[i]

\* mutant of treesEqual: the child tags are compared up to the shorter length
treesEqual_ComparesPrefix(a, b) ==
    IF a.tag # b.tag THEN FALSE
    ELSE \A i \in 1..Min2(Len(a.childTags), Len(b.childTags)) :
             a.childTags[i] = b.childTags[i]

\* treesEqual: a fingerprint is [tag, childTags]; arrays are indexed from 1 here
treesEqual(a, b) ==
    IF a.tag # b.tag THEN FALSE
    ELSE IF Len(a.childTags) # Len(b.childTags) THEN FALSE
    ELSE \A i \in 1..Len(a.childTags) : a.childTags[i] = b.childTags[i]

SKIP_TAGS == {"script", "style", "noscript", "svg", "path"}
SECTION_TAGS == {"header", "nav", "main", "section", "article", "aside", "footer"}

\* mutant of walk: the element is counted before the test for a skipped tag
RECURSIVE walk_CountsSkipped(_, _, _, _)
RECURSIVE walkChildren_CountsSkipped(_, _, _, _)
walk_CountsSkipped(nodes, el, depth, acc) ==
    LET tag == TagToLowerCase(TagName(nodes[el]))
        counted == [domNodes |-> acc.domNodes + 1,
                    maxDepth |-> Max2(acc.maxDepth, depth)]
    IN  IF tag \in SKIP_TAGS THEN counted
        ELSE walkChildren_CountsSkipped(nodes, SortedSeq(ChildrenOf(nodes, el)),
                                        depth + 1, counted)
walkChildren_CountsSkipped(nodes, cs, depth, acc) ==
    IF cs = <<>> THEN acc
    ELSE walkChildren_CountsSkipped(nodes, Tail(cs), depth,
                                    walk_CountsSkipped(nodes, Head(cs), depth, acc))

\* walk(el, depth) of analyzeDomMetrics; acc holds the counters domNodes and maxDepth
RECURSIVE walk(_, _, _, _)
RECURSIVE walkChildren(_, _, _, _)
walk(nodes, el, depth, acc) ==
    LET tag == TagToLowerCase(TagName(nodes[el]))
    IN  IF tag \in SKIP_TAGS THEN acc
        ELSE walkChildren(nodes, SortedSeq(ChildrenOf(nodes, el)), depth + 1,
                          [domNodes |-> acc.domNodes + 1,
                           maxDepth |-> Max2(acc.maxDepth, depth)])
walkChildren(nodes, cs, depth, acc) ==
    IF cs = <<>> THEN acc
    ELSE walkChildren(nodes, Tail(cs), depth, walk(nodes, Head(cs), depth, acc))

analyzeDomMetrics(html) ==
    IF ~html.hasBody
    THEN [domNodes |-> 0, maxDepth |-> 0, topLevelSections |-> 0]
    ELSE LET nodes == Nodes(html)
             w == walk(nodes, 1, 1, [domNodes |-> 0, maxDepth |-> 0])
             top == {c \in ChildrenOf(nodes, 1) :
                        TagToLowerCase(TagName(nodes[c])) \in SECTION_TAGS}
         IN  [domNodes |-> w.domNodes, maxDepth |-> w.maxDepth,
              topLevelSections |-> Cardinality(top)]

\* the loops of compare: for i, for j = i + 1 .. : differences++ when unequal
RECURSIVE compareInner(_, _, _, _)
compareInner(ts, i, j, differences) ==
    IF j > Len(ts) THEN differences
    ELSE compareInner(ts, i, j + 1,
                      IF ~treesEqual(ts[i], ts[j]) THEN differences + 1 ELSE differences)

\* mutant of compareOuter: the inner loop starts at the first tree, so every
\* unequal pair is met from both sides
RECURSIVE compareOuter_FromFirst(_, _, _)
compareOuter_FromFirst(ts, i, differences) ==
    IF i > Len(ts) THEN differences
    ELSE compareOuter_FromFirst(ts, i + 1, compareInner(ts, i, 1, differences))

RECURSIVE compareOuter(_, _, _)
compareOuter(ts, i, differences) ==
    IF i > Len(ts) THEN differences
    ELSE compareOuter(ts, i + 1, compareInner(ts, i, i + 1, differences))

\* mutant of classifyDifferences: the middle class starts one difference late
classifyDifferences_LateThreshold(differences) ==
    IF differences <= 1 THEN "deterministic"
    ELSE IF differences = 2 THEN "mostly-deterministic"
    ELSE "unstable"

classifyDifferences(differences) ==
    IF differences = 0 THEN "deterministic"
    ELSE IF differences = 1 THEN "mostly-deterministic"
    ELSE "unstable"

\* mutant of compare: the class is taken from the share of unequal pairs; with no
\* pair the share is 0 / 0 = NaN, which equals neither 0 nor 1
compare_ByShare(ts, domMetrics) ==
    LET differences == compareOuter(ts, 1, 0)
        pairs == (Len(ts) * (Len(ts) - 1)) \div 2
        class == IF pairs = 0 THEN "unstable"
                 ELSE IF differences = 0 THEN "deterministic"
                 ELSE IF differences = 1 THEN "mostly-deterministic"
                 ELSE "unstable"
    IN  domMetrics @@ [classification |-> class, differenceCount |-> differences]

\* compare: { classification, differenceCount, ...domMetrics }; a later key wins
compare(ts, domMetrics) ==
    LET differences == compareOuter(ts, 1, 0)
    IN  domMetrics @@ [classification |-> classifyDifferences(differences),
                       differenceCount |-> differences]

----------------------------------------------------------------------------
\* normalize.ts is not among the sources; from the specification, section 4.1: the
\* lowercased tag of body and the ordered tag names of its direct children.
normalize(html) ==
    IF ~html.hasBody THEN [tag |-> "body", childTags |-> <<>>]
    ELSE LET nodes == Nodes(html)
             cs == SortedSeq(ChildrenOf(nodes, 1))
         IN  [tag |-> TagToLowerCase(TagName(nodes[1])),
              childTags |-> [k \in DOMAIN cs |-> TagToLowerCase(TagName(nodes[cs[k]]))]]

----------------------------------------------------------------------------
\* src/unnamed/part_002, lines 17-194: semantics.ts

LANDMARK_TAGS == <<"main", "nav", "header", "footer", "aside", "article">>
SEMANTIC_TAGS ==
    <<"main", "nav", "header", "footer", "aside", "article", "section", "figure">>
GENERIC_LINK_TEXT ==
    { <<"c", "l", "i", "c", "k", " ", "h", "e", "r", "e">>,
      <<"h", "e", "r", "e">>,
      <<"r", "e", "a", "d", " ", "m", "o", "r", "e">>,
      <<"m", "o", "r", "e">>,
      <<"l", "e", "a", "r", "n", " ", "m", "o", "r", "e">>,
      <<"l", "i", "n", "k">> }

HEADING_NAMES == {"h1", "h2", "h3", "h4", "h5", "h6"}

\* a JavaScript number that is an integer, and NaN
Num(n) == [kind |-> "number", n |-> n]
NaN == [kind |-> "NaN", n |-> 0]
\* x >= k on JavaScript numbers: false when x is NaN
NumGeq(x, k) == x.kind = "number" /\ x.n >= k

\* levels.push(parseInt(h.tagName[1], 10)) for every heading, in document order
headingLevels(nodes) ==
    LET headings == QuerySelectorAll(nodes, 0, HEADING_NAMES)
    IN  [k \in DOMAIN headings |-> HeadingDigit[TagName(nodes[headings[k]])]]

\* levels.filter((l) => l === 1).length
countH1(levels) == Cardinality({i \in DOMAIN levels : levels[i] = 1})

\* mutant of scanSkips: a step down by more than one level counts as a skip too
RECURSIVE scanSkips_AnyJump(_, _)
scanSkips_AnyJump(levels, i) ==
    IF i > Len(levels) THEN FALSE
    ELSE IF levels[i] > levels[i - 1] + 1 \/ levels[i - 1] > levels[i] + 1 THEN TRUE
    ELSE scanSkips_AnyJump(levels, i + 1)

\* the scan for (i = 1; i < levels.length; i++) with its break (i counts from 2 here)
RECURSIVE scanSkips(_, _)
scanSkips(levels, i) ==
    IF i > Len(levels) THEN FALSE
    ELSE IF levels[i] > levels[i - 1] + 1 THEN TRUE
    ELSE scanSkips(levels, i + 1)

\* the landmark tags with doc.querySelector(tag) non-null, in the order of LANDMARK_TAGS
landmarksFound(nodes) ==
    SelectSeq(LANDMARK_TAGS, LAMBDA tag : QuerySelectorAll(nodes, 0, {tag}) # <<>>)

\* doc.body?.textContent?.length ?? 1
totalTextOf(html) ==
    IF ~html.hasBody THEN 1 ELSE Len(TextContent(Nodes(html), 1))

\* mutant of isNestedLandmark: only the parent element is looked at
isNestedLandmark_ParentOnly(nodes, el) ==
    LET parent == ParentOf(nodes, el)
    IN  parent # 0 /\ nodes[parent].localName \in Range(LANDMARK_TAGS)

\* el.parentElement?.closest(landmarkSelector) !== null
isNestedLandmark(nodes, el) ==
    \E a \in DOMAIN nodes :
        IsAncestor(nodes, a, el) /\ nodes[a].localName \in Range(LANDMARK_TAGS)

\* the loop over allLandmarks: landmarkText += el.textContent.length unless nested
RECURSIVE sumLandmarkText(_, _, _)
sumLandmarkText(nodes, els, landmarkText) ==
    IF els = <<>> THEN landmarkText
    ELSE sumLandmarkText(nodes, Tail(els),
             IF isNestedLandmark(nodes, Head(els)) THEN landmarkText
             ELSE landmarkText + Len(TextContent(nodes, Head(els))))

landmarkTextOf(nodes) ==
    sumLandmarkText(nodes, QuerySelectorAll(nodes, 0, Range(LANDMARK_TAGS)), 0)

\* Math.round(x) of the fraction a / b, b > 0: the nearest integer, halves upwards
RoundDiv(a, b) == (2 * a + b) \div (2 * b)

\* Math.min(100, Math.round((landmarkText / totalText) * 100)):
\* 0 / 0 is NaN and stays NaN; x / 0 is Infinity, which Math.min cuts to 100
coveragePercentOf(landmarkText, totalText) ==
    IF totalText = 0
    THEN IF landmarkText = 0 THEN NaN ELSE Num(100)
    ELSE Num(Min2(100, RoundDiv(landmarkText * 100, totalText)))

\* semanticCount += doc.querySelectorAll(tag).length for every tag of SEMANTIC_TAGS
RECURSIVE countSemantic(_, _, _)
countSemantic(nodes, tags, semanticCount) ==
    IF tags = <<>> THEN semanticCount
    ELSE countSemantic(nodes, Tail(tags),
                       semanticCount + Len(QuerySelectorAll(nodes, 0, {Head(tags)})))

\* mutant of divRatioOf: the + 1 of the denominator is missing
divRatioOf_NoPlusOne(divCount, semanticCount) ==
    [num |-> divCount, den |-> divCount + semanticCount]

\* divCount / (divCount + semanticCount + 1), as a fraction
divRatioOf(divCount, semanticCount) ==
    [num |-> divCount, den |-> divCount + semanticCount + 1]

\* divRatio < 0.6
divRatioBelowGate(divRatio) == divRatio.num * 5 < divRatio.den * 3

\* mutant of linkFlagged: an anchor without text is flagged even when it holds
\* an img with an alt attribute
linkFlagged_IgnoresImgAlt(nodes, link) ==
    LET text == ToLowerCase(Trim(TextContent(nodes, link)))
        hasHref == HasAttribute(nodes[link], "href")
        href == IF hasHref THEN GetAttribute(nodes[link], "href") ELSE <<>>
    IN  IF text = <<>> THEN TRUE
        ELSE IF text \in GENERIC_LINK_TEXT THEN TRUE
        ELSE IF StartsWith(href, JAVASCRIPT_PREFIX) THEN TRUE
        ELSE FALSE

\* the if / else if chain of the link loop: does this anchor count as an issue
linkFlagged(nodes, link) ==
    LET text == ToLowerCase(Trim(TextContent(nodes, link)))
        hasHref == HasAttribute(nodes[link], "href")
        href == IF hasHref THEN GetAttribute(nodes[link], "href") ELSE <<>>
        imgAlt == {i \in Range(QuerySelectorAll(nodes, link, {"img"})) :
                      HasAttribute(nodes[i], "alt")}
    IN  IF text = <<>> /\ imgAlt = {} THEN TRUE
        ELSE IF text \in GENERIC_LINK_TEXT THEN TRUE
        ELSE IF StartsWith(href, JAVASCRIPT_PREFIX) THEN TRUE
        ELSE FALSE

RECURSIVE countLinkIssues(_, _, _)
countLinkIssues(nodes, links, linkIssues) ==
    IF links = <<>> THEN linkIssues
    ELSE countLinkIssues(nodes, Tail(links),
             IF linkFlagged(nodes, Head(links)) THEN linkIssues + 1 ELSE linkIssues)

\* mutant of imageAltStep: the second test is an if of its own, so an image
\* without alt falls through to the final else as well
imageAltStep_NoElse(el, acc) ==
    LET first == IF ~HasAttribute(el, "alt")
                 THEN [acc EXCEPT !.missingAlt = @ + 1] ELSE acc
    IN  IF HasAttribute(el, "alt") /\ GetAttribute(el, "alt") = <<>>
        THEN [first EXCEPT !.emptyAlt = @ + 1]
        ELSE [first EXCEPT !.withAlt = @ + 1]

\* the if / else if / else chain on img.getAttribute('alt'): the three alt counters
imageAltStep(el, acc) ==
    IF ~HasAttribute(el, "alt")
    THEN [acc EXCEPT !.missingAlt = @ + 1]
    ELSE IF GetAttribute(el, "alt") = <<>>
    THEN [acc EXCEPT !.emptyAlt = @ + 1]
    ELSE [acc EXCEPT !.withAlt = @ + 1]

\* the rest of the body of the image loop; acc holds the seven counters
imageStep(nodes, img, acc) ==
    LET el == nodes[img]
        alt == imageAltStep(el, acc)
        inFigure == \E a \in DOMAIN nodes :
                        IsAncestor(nodes, a, img) /\ nodes[a].localName = "figure"
        lazy == HasAttribute(el, "loading") /\ GetAttribute(el, "loading") = LAZY
    IN  [alt EXCEPT
            !.inFigure = @ + (IF inFigure THEN 1 ELSE 0),
            !.withDimensions =
                @ + (IF HasAttribute(el, "width") /\ HasAttribute(el, "height")
                     THEN 1 ELSE 0),
            !.withSrcset = @ + (IF HasAttribute(el, "srcset") THEN 1 ELSE 0),
            !.withLazyLoading = @ + (IF lazy THEN 1 ELSE 0)]

RECURSIVE imageLoop(_, _, _)
imageLoop(nodes, imgs, acc) ==
    IF imgs = <<>> THEN acc
    ELSE imageLoop(nodes, Tail(imgs), imageStep(nodes, Head(imgs), acc))

\* mutant of semanticScore: the coverage gate asks for more than 80
semanticScore_StrictCoverage(h1Count, hasSkips, coveragePercent, divRatio, linkIssues) ==
      (IF h1Count = 1 /\ ~hasSkips THEN 25 ELSE 0)
    + (IF NumGeq(coveragePercent, 81) THEN 30 ELSE 0)
    + (IF divRatioBelowGate(divRatio) THEN 25 ELSE 0)
    + (IF linkIssues = 0 THEN 20 ELSE 0)

\* the four gates of the score
semanticScore(h1Count, hasSkips, coveragePercent, divRatio, linkIssues) ==
      (IF h1Count = 1 /\ ~hasSkips THEN 25 ELSE 0)
    + (IF NumGeq(coveragePercent, 80) THEN 30 ELSE 0)
    + (IF divRatioBelowGate(divRatio) THEN 25 ELSE 0)
    + (IF linkIssues = 0 THEN 20 ELSE 0)

\* mutant of classifyScore: explicit from 70 points
classifyScore_ExplicitFrom70(score) ==
    IF score >= 70 THEN "explicit"
    ELSE IF score >= 40 THEN "partial"
    ELSE "opaque"

classifyScore(score) ==
    IF score >= 75 THEN "explicit"
    ELSE IF score >= 40 THEN "partial"
    ELSE "opaque"

checkSemantics(html) ==
    LET nodes == Nodes(html)
        levels == headingLevels(nodes)
        h1Count == countH1(levels)
        hasSkips == scanSkips(levels, 2)
        found == landmarksFound(nodes)
        totalText == totalTextOf(html)
        landmarkText == landmarkTextOf(nodes)
        coveragePercent == coveragePercentOf(landmarkText, totalText)
        divCount == Len(QuerySelectorAll(nodes, 0, {"div", "span"}))
        semanticCount == countSemantic(nodes, SEMANTIC_TAGS, 0)
        divRatio == divRatioOf(divCount, semanticCount)
        linkIssues == countLinkIssues(nodes, QuerySelectorAll(nodes, 0, {"a"}), 0)
        timeEls == QuerySelectorAll(nodes, 0, {"time"})
        timeWithDatetime ==
            Cardinality({i \in Range(timeEls) : HasAttribute(nodes[i], "datetime")})
        orderedLists == Len(QuerySelectorAll(nodes, 0, {"ol"}))
        unorderedLists == Len(QuerySelectorAll(nodes, 0, {"ul"}))
        descriptionLists == Len(QuerySelectorAll(nodes, 0, {"dl"}))
        tables == QuerySelectorAll(nodes, 0, {"table"})
        tablesWithHeaders ==
            Cardinality({t \in Range(tables) :
                            \/ QuerySelectorAll(nodes, t, {"thead"}) # <<>>
                            \/ QuerySelectorAll(nodes, t, {"th"}) # <<>>})
        imgElements == QuerySelectorAll(nodes, 0, {"img"})
        images == imageLoop(nodes, imgElements,
                      [withAlt |-> 0, emptyAlt |-> 0, missingAlt |-> 0, inFigure |-> 0,
                       withDimensions |-> 0, withSrcset |-> 0, withLazyLoading |-> 0])
        score == semanticScore(h1Count, hasSkips, coveragePercent, divRatio, linkIssues)
    IN  [classification |-> classifyScore(score),
         headings |-> [h1Count |-> h1Count, hasSkips |-> hasSkips],
         landmarks |-> [found |-> found, coveragePercent |-> coveragePercent],
         divRatio |-> divRatio,
         linkIssues |-> linkIssues,
         timeElements |-> [total |-> Len(timeEls), withDatetime |-> timeWithDatetime],
         lists |-> [total |-> orderedLists + unorderedLists + descriptionLists,
                    ordered |-> orderedLists, unordered |-> unorderedLists,
                    description |-> descriptionLists],
         tables |-> [total |-> Len(tables), withHeaders |-> tablesWithHeaders],
         langAttribute |-> html.lang,
         images |-> [total |-> Len(imgElements)] @@ images]

----------------------------------------------------------------------------
\* src/unnamed/part_002, lines 1-13: index.ts

\* htmlSamples[0]: of an empty array it is undefined, which parseFromString
\* converts to the text "undefined": a body holding those nine characters
UndefinedDocument ==
    [lang |-> FALSE, hasBody |-> TRUE,
     nodes |-> <<At(Elem("body", <<"u", "n", "d", "e", "f", "i", "n", "e", "d">>, {}), 1)>>]

firstSample(samples) ==
    IF Len(samples) = 0 THEN UndefinedDocument ELSE samples[1]

\* mutant of analyze: metrics and semantics are taken from the last sample
analyze_FromLastSample(samples, u) ==
    LET ts == [k \in DOMAIN samples |-> normalize(samples[k])]
        last == IF Len(samples) = 0 THEN UndefinedDocument ELSE samples[Len(samples)]
        domMetrics == analyzeDomMetrics(last)
        struct == compare(ts, domMetrics)
        sem == checkSemantics(last)
    IN  [url |-> u, structure |-> struct, semantics |-> sem]

analyze(samples, u) ==
    LET ts == [k \in DOMAIN samples |-> normalize(samples[k])]
        domMetrics == analyzeDomMetrics(firstSample(samples))
        struct == compare(ts, domMetrics)
        sem == checkSemantics(firstSample(samples))
    IN  [url |-> u, structure |-> struct, semantics |-> sem]

----------------------------------------------------------------------------
\* The inputs: documents as the HTML parser builds them.

T_docs == <<"d", "o", "c", "s">>
T_title == <<"T">>
T_space == <<" ">>
T_HereSp == <<"H", "e", "r", "e", " ">>
T_x == <<"x">>
T_path == <<"/", "d">>

\* the elements SpecSemantics appends below body
ElemKinds ==
    { Elem("h1", T_title, {}),
      Elem("h2", <<>>, {}),
      Elem("h3", <<>>, {}),
      Elem("main", T_docs, {}),
      Elem("nav", <<>>, {}),
      Elem("div", T_space, {}),
      Elem("a", T_HereSp, {<<"href", T_path>>}),
      Elem("a", T_docs, {<<"href", T_path>>}),
      Elem("a", <<>>, {}),
      Elem("img", <<>>, {}),
      Elem("img", <<>>, {<<"alt", <<>> >>, <<"width", T_x>>, <<"height", T_x>>}),
      Elem("img", <<>>, {<<"alt", T_x>>, <<"loading", LAZY>>, <<"srcset", T_x>>}) }

\* elements the parser gives no element children: void and raw-text elements
ChildlessNames == {"img", "script", "style"}

\* Can the parser put el at this depth after the nodes so far: below an element
\* that takes children, no anchor inside an anchor, no heading directly in a
\* heading, SVG elements below svg and only there
ParserAllows(nodes, el, depth) ==
    LET ext == Append(nodes, At(el, depth))
        i == Len(ext)
        parent == ParentOf(ext, i)
    IN  /\ depth \in 2..(nodes[Len(nodes)].depth + 1)
        /\ ext[parent].localName \notin ChildlessNames
        /\ el.localName = "a" =>
              ~\E a \in DOMAIN nodes : IsAncestor(ext, a, i) /\ nodes[a].localName = "a"
        /\ el.localName \in HEADING_NAMES => ext[parent].localName \notin HEADING_NAMES
        /\ (el.localName = "path" \/ ext[parent].localName \in SvgNames) =>
              (el.localName \in SvgNames /\ ext[parent].localName \in SvgNames)

EmptyDocument(lang) ==
    [lang |-> lang, hasBody |-> TRUE, nodes |-> <<At(Elem("body", <<>>, {}), 1)>>]

\* a document from the elements below body, given as <<element, depth>> pairs
Document(lang, els) ==
    [lang |-> lang, hasBody |-> TRUE,
     nodes |-> <<At(Elem("body", <<>>, {}), 1)>>
               \o [k \in DOMAIN els |-> At(els[k][1], els[k][2])]]

----------------------------------------------------------------------------
\* SpecSemantics: checkSemantics applied to one document.

InitSemantics ==
    /\ doc \in {EmptyDocument(lang) : lang \in BOOLEAN}
    /\ semantics = None
    /\ trees = <<>> /\ structure = None
    /\ htmlSamples = <<>> /\ url = "" /\ result = None /\ prev = None
    /\ IdleLater

\* the document under analysis has one more element
AppendNode(el, depth) ==
    /\ semantics = None
    /\ metrics = None
    /\ Len(doc.nodes) - 1 < MaxNodes
    /\ ParserAllows(doc.nodes, el, depth)
    /\ doc' = [doc EXCEPT !.nodes = Append(@, At(el, depth))]
    /\ UNCHANGED <<semantics, compareVars, analyzeVars, laterVars>>

CheckSemantics ==
    /\ semantics = None
    /\ semantics' = checkSemantics(doc)
    /\ UNCHANGED <<doc, compareVars, analyzeVars, laterVars>>

NextSemantics ==
    \/ \E el \in ElemKinds, depth \in 2..(MaxNodes + 1) : AppendNode(el, depth)
    \/ CheckSemantics

SpecSemantics == InitSemantics /\ [][NextSemantics]_vars

----------------------------------------------------------------------------
\* Properties of checkSemantics (SpecSemantics).

\* the elements of the document under analysis with one of the local names
ElementsNamed(names) == {i \in DOMAIN doc.nodes : doc.nodes[i].localName \in names}

\* the rubric of the specification, applied to the fields of a result
RubricScore(sem) ==
    LET cp == sem.landmarks.coveragePercent
        gateHeadings == sem.headings.h1Count = 1 /\ sem.headings.hasSkips = FALSE
        gateLandmarks == cp.kind = "number" /\ cp.n >= 80
        gateDivRatio == 10 * sem.divRatio.num < 6 * sem.divRatio.den
        gateLinks == sem.linkIssues = 0
    IN  (IF gateHeadings THEN 25 ELSE 0) + (IF gateLandmarks THEN 30 ELSE 0)
        + (IF gateDivRatio THEN 25 ELSE 0) + (IF gateLinks THEN 20 ELSE 0)

RubricClass(sem) ==
    CASE RubricScore(sem) >= 75 -> "explicit"
      [] RubricScore(sem) >= 40 /\ RubricScore(sem) < 75 -> "partial"
      [] RubricScore(sem) < 40 -> "opaque"

\* C7: the classification checkSemantics returns is the one the rubric (+25 one h1
\* and no skips, +30 coverage >= 80, +25 divRatio < 0.6, +20 no link issues;
\* >= 75 explicit, >= 40 partial, else opaque) gives on the fields of the same result.
C7_ClassificationFollowsRubric ==
    semantics # None => semantics.classification = RubricClass(semantics)

\* C7 witness: a result on the boundaries: coverage exactly 80 and score exactly 75
C7_Witness ==
    /\ semantics # None
    /\ semantics.landmarks.coveragePercent = Num(80)
    /\ RubricScore(semantics) = 75
    /\ semantics.classification = "explicit"

\* C8: withAlt + emptyAlt + missingAlt = total, total counts the img elements, and
\* each of the three counters counts the img elements of its alt class.
C8_ImageCountsPartition ==
    semantics # None =>
        LET im == semantics.images
            imgs == ElementsNamed({"img"})
            alts(i) == {kv \in doc.nodes[i].attrs : kv[1] = "alt"}
        IN  /\ im.withAlt + im.emptyAlt + im.missingAlt = im.total
            /\ im.total = Cardinality(imgs)
            /\ im.missingAlt = Cardinality({i \in imgs : alts(i) = {}})
            /\ im.emptyAlt = Cardinality({i \in imgs : alts(i) = {<<"alt", <<>> >>}})
            /\ im.withAlt =
                  Cardinality({i \in imgs : \E kv \in alts(i) : Len(kv[2]) > 0})

\* C8 witness: a document with one image of each alt class has been analyzed
C8_Witness ==
    /\ semantics # None
    /\ semantics.images.total = 3
    /\ semantics.images.withAlt = 1
    /\ semantics.images.emptyAlt = 1
    /\ semantics.images.missingAlt = 1

\* C9: coveragePercent is a number between 0 and 100 for every document, also for
\* one whose body has no text.
C9_CoverageIsBoundedNumber ==
    semantics # None =>
        LET cp == semantics.landmarks.coveragePercent
        IN  cp.kind = "number" /\ 0 <= cp.n /\ cp.n <= 100

\* C10: divRatio = divCount / (divCount + semanticCount + 1), its denominator is at
\* least 1 and greater than its numerator, so 0 <= divRatio < 1.
C10_DivRatioBounds ==
    semantics # None =>
        LET r == semantics.divRatio
            divCount == Cardinality(ElementsNamed({"div", "span"}))
            semanticCount ==
                Cardinality(ElementsNamed({"main", "nav", "header", "footer", "aside",
                                           "article", "section", "figure"}))
        IN  /\ r.num = divCount
            /\ r.den = divCount + semanticCount + 1
            /\ r.den >= 1
            /\ 0 <= r.num
            /\ r.num < r.den

\* C10 witness: a document of generic containers only, the ratio closest to 1
C10_Witness ==
    /\ semantics # None
    /\ semantics.divRatio.num >= 2
    /\ semantics.divRatio.den = semantics.divRatio.num + 1

\* the level of every heading of the document under analysis, in document order
LevelOfHeading == [h1 |-> 1, h2 |-> 2, h3 |-> 3, h4 |-> 4, h5 |-> 5, h6 |-> 6]
HeadingLevelsInOrder ==
    LET hs == SortedSeq(ElementsNamed(DOMAIN LevelOfHeading))
    IN  [k \in DOMAIN hs |-> LevelOfHeading[doc.nodes[hs[k]].localName]]

\* C18: hasSkips is true exactly when some heading is more than one level below
\* the heading before it in document order (so never for fewer than two headings,
\* never for a step up, never for the first heading alone); h1Count is the number
\* of level-1 headings.
C18_SkipsAreAdjacentJumps ==
    semantics # None =>
        LET level == HeadingLevelsInOrder
        IN  /\ semantics.headings.hasSkips =
                  (\E i \in 2..Len(level) : level[i] > level[i - 1] + 1)
            /\ Len(level) <= 1 => semantics.headings.hasSkips = FALSE
            /\ semantics.headings.h1Count =
                  Cardinality({i \in DOMAIN level : level[i] = 1})

\* C18 witness: an h3 first, then a step up to h1, then an h3 again: one skip,
\* after a first heading of level 3 and a decrease that are none
C18_Witness ==
    /\ semantics # None
    /\ HeadingLevelsInOrder = <<3, 1, 3>>
    /\ semantics.headings.hasSkips = TRUE
    /\ semantics.headings.h1Count = 1

----------------------------------------------------------------------------
\* SpecLinks: checkSemantics applied to one document of anchors and images.

T_script == JAVASCRIPT_PREFIX \o <<"v">>
T_Script == <<"J">> \o Tail(T_script)

\* the elements SpecLinks appends below body
LinkKinds ==
    { Elem("a", T_HereSp, {<<"href", T_path>>}),
      Elem("a", T_docs, {<<"href", T_path>>}),
      Elem("a", <<>>, {}),
      Elem("a", T_docs, {<<"href", T_script>>}),
      Elem("a", T_HereSp, {<<"href", T_script>>}),
      Elem("a", T_space, {<<"href", T_Script>>}),
      Elem("span", T_HereSp, {}),
      Elem("img", <<>>, {}),
      Elem("img", <<>>, {<<"alt", <<>> >>}) }

NextLinks ==
    \/ \E el \in LinkKinds, depth \in 2..(MaxNodes + 1) : AppendNode(el, depth)
    \/ CheckSemantics

SpecLinks == InitSemantics /\ [][NextLinks]_vars

\* the text of an anchor as the link loop reads it
LinkText(a) == ToLowerCase(Trim(TextContent(doc.nodes, a)))

\* (a) no text and no img with an alt attribute inside the anchor
LinkWithoutName(a) ==
    /\ LinkText(a) = <<>>
    /\ ~\E i \in DOMAIN doc.nodes :
          /\ IsAncestor(doc.nodes, a, i)
          /\ doc.nodes[i].localName = "img"
          /\ \E kv \in doc.nodes[i].attrs : kv[1] = "alt"

\* (b) the text is one of the generic phrases
LinkWithGenericText(a) == LinkText(a) \in GENERIC_LINK_TEXT

\* (c) the href starts with javascript:
LinkWithScriptHref(a) ==
    \E kv \in doc.nodes[a].attrs :
        /\ kv[1] = "href"
        /\ Len(kv[2]) >= 11
        /\ SubSeq(kv[2], 1, 11) = <<"j", "a", "v", "a", "s", "c", "r", "i", "p", "t", ":">>

\* C19: linkIssues is the number of anchors that have no text and no img with
\* alt, or a generic text, or a javascript: href; an anchor is counted once, so
\* linkIssues lies between 0 and the number of anchors.
C19_LinkIssuesCountAnchorsOnce ==
    semantics # None =>
        LET anchors == ElementsNamed({"a"})
            flagged == {a \in anchors : \/ LinkWithoutName(a)
                                        \/ LinkWithGenericText(a)
                                        \/ LinkWithScriptHref(a)}
        IN  /\ semantics.linkIssues = Cardinality(flagged)
            /\ 0 <= semantics.linkIssues
            /\ semantics.linkIssues <= Cardinality(anchors)

\* C19 witness: an anchor without text around an img with alt is not flagged, and
\* an anchor with generic text and a javascript: href is counted once
C19_Witness ==
    /\ semantics # None
    /\ Cardinality(ElementsNamed({"a"})) = 2
    /\ \E a, b \in ElementsNamed({"a"}) :
          /\ LinkText(a) = <<>> /\ ~LinkWithoutName(a)
          /\ LinkWithGenericText(b) /\ LinkWithScriptHref(b)
    /\ semantics.linkIssues = 1

----------------------------------------------------------------------------
\* SpecMetrics: analyzeDomMetrics applied to one document with skipped subtrees.

\* the elements SpecMetrics appends below body
MetricsKinds ==
    { Elem("div", <<>>, {}),
      Elem("section", <<>>, {}),
      Elem("script", T_x, {}),
      Elem("style", T_x, {}),
      Elem("noscript", <<>>, {}),
      Elem("svg", <<>>, {}),
      Elem("path", <<>>, {<<"d", T_x>>}) }

InitMetrics ==
    /\ doc = EmptyDocument(FALSE)
    /\ semantics = None
    /\ metrics = None
    /\ trees = <<>> /\ structure = None
    /\ htmlSamples = <<>> /\ url = "" /\ result = None /\ prev = None
    /\ IdleCalls /\ IdlePage /\ IdleProxy /\ IdleInterpret

AnalyzeDomMetrics ==
    /\ metrics = None
    /\ metrics' = analyzeDomMetrics(doc)
    /\ UNCHANGED <<coreVars, notMetrics>>

NextMetrics ==
    \/ \E el \in MetricsKinds, depth \in 2..(MaxNodes + 1) : AppendNode(el, depth)
    \/ AnalyzeDomMetrics

SpecMetrics == InitMetrics /\ [][NextMetrics]_vars

\* the elements the walk from body reaches: neither they nor one of their
\* ancestors is a script, style, noscript, svg or path element
Skipped(i) == doc.nodes[i].localName \in {"script", "style", "noscript", "svg", "path"}
Reached ==
    {i \in DOMAIN doc.nodes :
        /\ ~Skipped(i)
        /\ \A a \in DOMAIN doc.nodes : IsAncestor(doc.nodes, a, i) => ~Skipped(a)}

\* C20: domNodes is the number of elements reached from body without entering a
\* script, style, noscript, svg or path element, maxDepth is the greatest depth
\* among them (body has depth 1), and with a body 1 <= maxDepth <= domNodes.
C20_MetricsCountReachedElements ==
    metrics # None =>
        /\ metrics.domNodes = Cardinality(Reached)
        /\ \A i \in Reached : doc.nodes[i].depth <= metrics.maxDepth
        /\ \E i \in Reached : doc.nodes[i].depth = metrics.maxDepth
        /\ 1 <= metrics.maxDepth
        /\ metrics.maxDepth <= metrics.domNodes

\* C20 witness: a path two levels below body inside an svg is deeper than every
\* reached element, and the svg subtree is not counted
C20_Witness ==
    /\ metrics # None
    /\ \E i \in DOMAIN doc.nodes :
          /\ doc.nodes[i].localName = "path"
          /\ doc.nodes[i].depth > metrics.maxDepth
    /\ metrics.domNodes = 2
    /\ Len(doc.nodes) = 4

----------------------------------------------------------------------------
\* SpecCompare: compare applied to a sequence of fingerprints.

FpRootTags == {"body", "frameset"}
FpChildTags == {"div", "section"}

Fingerprints ==
    {[tag |-> t, childTags |-> c] :
        t \in FpRootTags,
        c \in UNION {[1..n -> FpChildTags] : n \in 0..MaxChildTags}}

\* the DomMetrics handed to compare with the fingerprints
DomMetricsInputs ==
    { [domNodes |-> 0, maxDepth |-> 0, topLevelSections |-> 0],
      [domNodes |-> 3, maxDepth |-> 2, topLevelSections |-> 1] }

InitCompare ==
    /\ trees = <<>>
    /\ structure = None
    /\ doc = EmptyDocument(FALSE) /\ semantics = None
    /\ htmlSamples = <<>> /\ url = "" /\ result = None /\ prev = None
    /\ IdleLater

\* one more fingerprint in the argument of compare
PushTree(fp) ==
    /\ structure = None
    /\ Len(trees) < MaxTrees
    /\ trees' = Append(trees, fp)
    /\ UNCHANGED <<structure, semanticsVars, analyzeVars, laterVars>>

Compare(domMetrics) ==
    /\ structure = None
    /\ structure' = compare(trees, domMetrics)
    /\ UNCHANGED <<trees, semanticsVars, analyzeVars, laterVars>>

NextCompare ==
    \/ \E fp \in Fingerprints : PushTree(fp)
    \/ \E domMetrics \in DomMetricsInputs : Compare(domMetrics)

SpecCompare == InitCompare /\ [][NextCompare]_vars

----------------------------------------------------------------------------
\* Properties of compare (SpecCompare).

\* the index pairs i < j of the fingerprints that differ in tag or in childTags
UnequalPairs ==
    {p \in (DOMAIN trees) \X (DOMAIN trees) :
        /\ p[1] < p[2]
        /\ \/ trees[p[1]].tag # trees[p[2]].tag
           \/ trees[p[1]].childTags # trees[p[2]].childTags}

\* C1: compare classifies by differenceCount alone: 0 deterministic,
\* 1 mostly-deterministic, 2 or more unstable.
C1_ClassificationThresholds ==
    structure # None =>
        /\ structure.differenceCount = 0 => structure.classification = "deterministic"
        /\ structure.differenceCount = 1 =>
              structure.classification = "mostly-deterministic"
        /\ structure.differenceCount >= 2 => structure.classification = "unstable"
        /\ structure.differenceCount >= 0

\* C1 witness: compare has returned exactly one difference
C1_Witness ==
    /\ structure # None
    /\ structure.differenceCount = 1
    /\ structure.classification = "mostly-deterministic"

\* C2: differenceCount is the number of index pairs i < j whose fingerprints differ
\* in tag or in childTags, each pair counted once, so it lies in 0 .. N(N-1)/2.
C2_DifferenceCountIsUnequalPairs ==
    structure # None =>
        /\ structure.differenceCount = Cardinality(UnequalPairs)
        /\ 0 <= structure.differenceCount
        /\ 2 * structure.differenceCount <= Len(trees) * (Len(trees) - 1)

\* C2 witness: three fingerprints, every pair of them unequal
C2_Witness ==
    /\ structure # None
    /\ Len(trees) = 3
    /\ structure.differenceCount = 3

\* C3: over the empty sequence and over every single fingerprint compare returns
\* differenceCount 0 and classification deterministic.
C3_SingleOrEmptyIsDeterministic ==
    (structure # None /\ Len(trees) <= 1) =>
        /\ structure.differenceCount = 0
        /\ structure.classification = "deterministic"

\* C3 witness: compare has returned for a single fingerprint that has children
C3_Witness ==
    /\ structure # None
    /\ Len(trees) = 1
    /\ trees[1].childTags # <<>>
    /\ structure.classification = "deterministic"

\* exactly one of three fingerprints differs from the other two, which are equal
OneOfThreeDiffers ==
    /\ Len(trees) = 3
    /\ \E odd \in 1..3 :
          \A i, j \in (1..3) \ {odd} : trees[i] = trees[j] /\ trees[i] # trees[odd]

\* C5: when one of three fingerprints differs from the other two, which are equal,
\* at any position, differenceCount is 2 and the classification is unstable.
C5_OneOfThreeIsUnstable ==
    (structure # None /\ OneOfThreeDiffers) =>
        /\ structure.differenceCount = 2
        /\ structure.classification = "unstable"

\* C5 witness: the second of three fingerprints has an extra trailing section
C5_Witness ==
    /\ structure # None
    /\ Len(trees) = 3
    /\ trees[1] = trees[3]
    /\ trees[1].tag = trees[2].tag
    /\ trees[2].childTags = Append(trees[1].childTags, "section")
    /\ structure.classification = "unstable"

\* C11: every StructureResult produced by compare carries a customElements field
\* that is an integer >= 0, alongside classification, differenceCount, domNodes,
\* maxDepth and topLevelSections.
C11_StructureCarriesCustomElements ==
    structure # None =>
        /\ {"classification", "differenceCount", "domNodes", "maxDepth",
            "topLevelSections", "customElements"} \subseteq DOMAIN structure
        /\ structure.customElements \in Nat

----------------------------------------------------------------------------
\* Spec: analyze applied to the samples of one URL, two invocations in a row.

\* an article: main holding the text and the only h1
DocArticle ==
    Document(TRUE, << <<Elem("main", T_docs, {}), 2>>, <<Elem("h1", T_title, {}), 3>> >>)
\* the same article with an h2 for the h1: a change below the children of body
DocArticleH2 ==
    Document(TRUE, << <<Elem("main", T_docs, {}), 2>>, <<Elem("h2", T_title, {}), 3>> >>)
\* the article with an extra top-level section
DocArticleSection ==
    Document(TRUE, << <<Elem("main", T_docs, {}), 2>>, <<Elem("h1", T_title, {}), 3>>,
                      <<Elem("section", <<>>, {}), 2>> >>)
\* generic containers and a link that says "Here"
DocGeneric ==
    Document(FALSE, << <<Elem("div", T_space, {}), 2>>, <<Elem("div", T_space, {}), 3>>,
                       <<Elem("a", T_HereSp, {<<"href", T_path>>}), 2>> >>)

SampleDocs == {EmptyDocument(FALSE), DocArticle, DocArticleH2, DocArticleSection, DocGeneric}

Urls == {"https://a.example/", "https://b.example/"}

Init ==
    /\ htmlSamples = <<>>
    /\ url \in Urls
    /\ result = None
    /\ prev = None
    /\ trees = <<>> /\ structure = None
    /\ doc = EmptyDocument(FALSE) /\ semantics = None
    /\ IdleLater

\* one more fetched sample in the argument of analyze
AddSample(d) ==
    /\ result = None
    /\ Len(htmlSamples) < MaxSamples
    /\ htmlSamples' = Append(htmlSamples, d)
    /\ UNCHANGED <<url, result, prev, compareVars, semanticsVars, laterVars>>

Analyze ==
    /\ result = None
    /\ result' = analyze(htmlSamples, url)
    /\ UNCHANGED <<htmlSamples, url, prev, compareVars, semanticsVars, laterVars>>

\* the caller keeps what the invocation saw first and returned, and starts another
NextInvocation(u) ==
    /\ result # None
    /\ prev = None
    /\ prev' = [first |-> SubSeq(htmlSamples, 1, Min2(1, Len(htmlSamples))),
                url |-> url, result |-> result]
    /\ htmlSamples' = <<>>
    /\ url' = u
    /\ result' = None
    /\ UNCHANGED <<compareVars, semanticsVars, laterVars>>

Next ==
    \/ \E d \in SampleDocs : AddSample(d)
    \/ Analyze
    \/ \E u \in Urls : NextInvocation(u)

Spec == Init /\ [][Next]_vars

----------------------------------------------------------------------------
\* Properties of analyze (Spec).

\* C4: analyze over N >= 1 identical samples returns differenceCount 0 and
\* classification deterministic.
C4_IdenticalSamplesAreDeterministic ==
    (/\ result # None
     /\ Len(htmlSamples) >= 1
     /\ \A i \in DOMAIN htmlSamples : htmlSamples[i] = htmlSamples[1]) =>
        /\ result.structure.differenceCount = 0
        /\ result.structure.classification = "deterministic"

\* C4 witness: three identical samples of a document with elements were analyzed
C4_Witness ==
    /\ result # None
    /\ Len(htmlSamples) = 3
    /\ \A i \in DOMAIN htmlSamples : htmlSamples[i] = DocArticleSection
    /\ result.structure.classification = "deterministic"

\* C6: two invocations that agree on the first sample agree on domNodes, maxDepth,
\* topLevelSections and the whole semantics record, whatever the other samples
\* are; the url field of a result is the url argument.
C6_FirstSampleDecidesMetricsAndSemantics ==
    /\ result # None => result.url = url
    /\ (/\ result # None /\ prev # None
        /\ Len(htmlSamples) >= 1
        /\ prev.first = <<htmlSamples[1]>>) =>
            /\ result.structure.domNodes = prev.result.structure.domNodes
            /\ result.structure.maxDepth = prev.result.structure.maxDepth
            /\ result.structure.topLevelSections =
                  prev.result.structure.topLevelSections
            /\ result.semantics = prev.result.semantics

\* C6 witness: two invocations with the same first sample and different later
\* samples, which differ in differenceCount, under different urls
C6_Witness ==
    /\ result # None /\ prev # None
    /\ Len(htmlSamples) = 3
    /\ prev.first = <<htmlSamples[1]>>
    /\ htmlSamples[3] # htmlSamples[1]
    /\ result.structure.differenceCount # prev.result.structure.differenceCount
    /\ result.url # prev.result.url

\* C12: analyze called with an empty sample sequence never returns an
\* AnalysisResult.
C12_EmptySamplesReturnNoResult ==
    Len(htmlSamples) = 0 => result = None

\* the tag of body and the names of its direct children, in document order
TopLevelNames(d) ==
    LET cs == SortedSeq(ChildrenOf(d.nodes, 1))
    IN  <<d.nodes[1].localName, [k \in DOMAIN cs |-> d.nodes[cs[k]].localName]>>

\* pairs of samples that differ in the tag of body or in the direct children
TopLevelDiffers ==
    {p \in (DOMAIN htmlSamples) \X (DOMAIN htmlSamples) :
        /\ p[1] < p[2]
        /\ TopLevelNames(htmlSamples[p[1]]) # TopLevelNames(htmlSamples[p[2]])}

\* C17: fingerprints of samples with the same body tag and the same direct
\* children in the same order are equal whatever lies below the children, and such
\* pairs of samples add nothing to differenceCount.
C17_EqualityIsShallow ==
    result # None =>
        /\ \A i, j \in DOMAIN htmlSamples :
              TopLevelNames(htmlSamples[i]) = TopLevelNames(htmlSamples[j]) =>
                  treesEqual(normalize(htmlSamples[i]), normalize(htmlSamples[j]))
        /\ result.structure.differenceCount <= Cardinality(TopLevelDiffers)

\* C17 witness: two samples that differ only below main were counted as equal
C17_Witness ==
    /\ result # None
    /\ htmlSamples = <<DocArticle, DocArticleH2>>
    /\ DocArticle # DocArticleH2
    /\ result.structure.differenceCount = 0

----------------------------------------------------------------------------
\* SpecInterleave: invocations of analyze whose statements interleave.
\* Every const and let of analyze, analyzeDomMetrics and compare is declared
\* inside the function body, so each activation has its own copy: the frame.

\* invocations under way at the same time
MaxCalls == 2

\* mutant of Frame: the variables are declared at module level, one copy for all
Frame_Shared(k) == 1

\* the activation record that holds the local variables of invocation k
Frame(k) == k

EmptyFrame ==
    [trees |-> None, counters |-> None, domMetrics |-> None,
     structure |-> None, semantics |-> None]

\* the arguments of the invocations
CallInputs ==
    { [htmlSamples |-> <<DocArticle, DocArticleSection>>, url |-> "https://a.example/"],
      [htmlSamples |-> <<DocArticle, DocArticle>>, url |-> "https://a.example/"],
      [htmlSamples |-> <<DocGeneric>>, url |-> "https://b.example/"] }

InitInterleave ==
    /\ calls \in [1..MaxCalls ->
                    {[in |-> c, pc |-> "trees", result |-> None] : c \in CallInputs}]
    /\ frames = [f \in 1..MaxCalls |-> EmptyFrame]
    /\ overlapped = FALSE
    /\ trees = <<>> /\ structure = None
    /\ doc = EmptyDocument(FALSE) /\ semantics = None
    /\ htmlSamples = <<>> /\ url = "" /\ result = None /\ prev = None
    /\ IdleMetrics /\ IdlePage /\ IdleProxy /\ IdleInterpret

\* invocation k runs one statement, possibly while another is under way
Advance(k, pc) ==
    /\ calls' = [calls EXCEPT ![k].pc = pc]
    /\ overlapped' = (overlapped \/ \E j \in DOMAIN calls :
                                      j # k /\ calls[j].pc \notin {"trees", "done"})
    /\ UNCHANGED <<coreVars, notCalls>>

\* const trees = htmlSamples.map(normalize)
CallNormalize(k) ==
    /\ calls[k].pc = "trees"
    /\ frames' = [frames EXCEPT ![Frame(k)].trees =
                      [i \in DOMAIN calls[k].in.htmlSamples |->
                          normalize(calls[k].in.htmlSamples[i])]]
    /\ Advance(k, "counters")

\* analyzeDomMetrics: let domNodes = 0; let maxDepth = 0
CallMetricsInit(k) ==
    /\ calls[k].pc = "counters"
    /\ frames' = [frames EXCEPT ![Frame(k)].counters = [domNodes |-> 0, maxDepth |-> 0]]
    /\ Advance(k, "walk")

\* analyzeDomMetrics: walk(body, 1)
CallMetricsWalk(k) ==
    /\ calls[k].pc = "walk"
    /\ frames' = [frames EXCEPT ![Frame(k)].counters =
                      walk(Nodes(firstSample(calls[k].in.htmlSamples)), 1, 1, @)]
    /\ Advance(k, "domMetrics")

\* analyzeDomMetrics: the count of top-level sections and the return
CallMetricsReturn(k) ==
    /\ calls[k].pc = "domMetrics"
    /\ LET nodes == Nodes(firstSample(calls[k].in.htmlSamples))
           top == {c \in ChildrenOf(nodes, 1) :
                      TagToLowerCase(TagName(nodes[c])) \in SECTION_TAGS}
       IN  frames' = [frames EXCEPT ![Frame(k)].domMetrics =
                         [domNodes |-> frames[Frame(k)].counters.domNodes,
                          maxDepth |-> frames[Frame(k)].counters.maxDepth,
                          topLevelSections |-> Cardinality(top)]]
    /\ Advance(k, "structure")

\* const structure = compare(trees, domMetrics)
CallCompare(k) ==
    /\ calls[k].pc = "structure"
    /\ frames' = [frames EXCEPT ![Frame(k)].structure =
                      compare(frames[Frame(k)].trees, frames[Frame(k)].domMetrics)]
    /\ Advance(k, "semantics")

\* const semantics = checkSemantics(htmlSamples[0])
CallCheckSemantics(k) ==
    /\ calls[k].pc = "semantics"
    /\ frames' = [frames EXCEPT ![Frame(k)].semantics =
                      checkSemantics(firstSample(calls[k].in.htmlSamples))]
    /\ Advance(k, "return")

\* return { url, structure, semantics }
CallReturn(k) ==
    /\ calls[k].pc = "return"
    /\ calls' = [calls EXCEPT ![k].pc = "done",
                              ![k].result = [url |-> calls[k].in.url,
                                             structure |-> frames[Frame(k)].structure,
                                             semantics |-> frames[Frame(k)].semantics]]
    /\ overlapped' = (overlapped \/ \E j \in DOMAIN calls :
                                      j # k /\ calls[j].pc \notin {"trees", "done"})
    /\ UNCHANGED <<frames, coreVars, notCalls>>

NextInterleave ==
    \E k \in 1..MaxCalls :
        \/ CallNormalize(k)
        \/ CallMetricsInit(k)
        \/ CallMetricsWalk(k)
        \/ CallMetricsReturn(k)
        \/ CallCompare(k)
        \/ CallCheckSemantics(k)
        \/ CallReturn(k)

SpecInterleave == InitInterleave /\ [][NextInterleave]_vars

\* C14: whatever the interleaving of the invocations, each returns the result
\* analyze gives for its arguments when run alone, and invocations with the same
\* arguments return equal results.
C14_InvocationsAreIsolated ==
    \A j, k \in DOMAIN calls :
        /\ calls[k].pc = "done" =>
              calls[k].result = analyze(calls[k].in.htmlSamples, calls[k].in.url)
        /\ (calls[j].pc = "done" /\ calls[k].pc = "done" /\ calls[j].in = calls[k].in) =>
              calls[j].result = calls[k].result

\* C14 witness: two invocations with different arguments have both returned,
\* their statements interleaved, with different results
C14_Witness ==
    /\ overlapped
    /\ \E j, k \in DOMAIN calls :
          /\ calls[j].pc = "done" /\ calls[k].pc = "done"
          /\ calls[j].in # calls[k].in
          /\ calls[j].result.structure.differenceCount = 1
          /\ calls[k].result.structure.differenceCount = 0
          /\ calls[j].result.structure.domNodes # calls[k].result.structure.domNodes

----------------------------------------------------------------------------
\* Host names and the literal alternatives of the blocked-host patterns, as
\* sequences of characters.

H_A == <<"a", ".", "e", "x", "a", "m", "p", "l", "e">>
H_B == <<"b", ".", "e", "x", "a", "m", "p", "l", "e">>
H_LOCALHOST == <<"l", "o", "c", "a", "l", "h", "o", "s", "t">>
H_LOOPBACK == <<"1", "2", "7", ".", "0", ".", "0", ".", "1">>
H_PRIVATE172 == <<"1", "7", "2", ".", "1", "6", ".", "0", ".", "1">>
H_PUBLIC172 == <<"1", "7", "2", ".", "3", "2", ".", "0", ".", "1">>
H_ULA == <<"[", "f", "d", "0", "0", ":", ":", "1", "]">>

P_LOCALHOST == <<"l", "o", "c", "a", "l", "h", "o", "s", "t">>
P_127 == <<"1", "2", "7", ".">>
P_10 == <<"1", "0", ".">>
H_172 == <<"1", "7", "2", ".">>
P_192168 == <<"1", "9", "2", ".", "1", "6", "8", ".">>
P_169254 == <<"1", "6", "9", ".", "2", "5", "4", ".">>
P_0000 == <<"0", ".", "0", ".", "0", ".", "0">>
P_V6LOOP == <<"[", ":", ":", "1", "]">>
P_FE80 == <<"[", "f", "e", "8", "0", ":">>

----------------------------------------------------------------------------
\* src/src/fetch.ts: validateUrl and fetchHtml.

\* new URL(text) for the texts of the inputs: None when the constructor throws;
\* the host is lower-cased and an empty path becomes /
NewURL(text) ==
    CASE text = "https://a.example" ->
            [protocol |-> "https:", hostname |-> H_A, href |-> "https://a.example/"]
      [] text = "https://a.example/x" ->
            [protocol |-> "https:", hostname |-> H_A, href |-> "https://a.example/x"]
      [] text = "http://b.example/" ->
            [protocol |-> "http:", hostname |-> H_B, href |-> "http://b.example/"]
      [] text = "ftp://a.example/" ->
            [protocol |-> "ftp:", hostname |-> H_A, href |-> "ftp://a.example/"]
      [] text = "http://LOCALHOST/" ->
            [protocol |-> "http:", hostname |-> H_LOCALHOST, href |-> "http://localhost/"]
      [] text = "http://127.0.0.1/" ->
            [protocol |-> "http:", hostname |-> H_LOOPBACK, href |-> "http://127.0.0.1/"]
      [] text = "http://172.16.0.1/" ->
            [protocol |-> "http:", hostname |-> H_PRIVATE172, href |-> "http://172.16.0.1/"]
      [] text = "http://172.32.0.1/" ->
            [protocol |-> "http:", hostname |-> H_PUBLIC172, href |-> "http://172.32.0.1/"]
      [] text = "http://[FD00::1]/" ->
            [protocol |-> "http:", hostname |-> H_ULA, href |-> "http://[fd00::1]/"]
      [] OTHER -> None

\* input.includes('://')
IncludesSchemeSeparator(input) ==
    input \in {"https://a.example/x", "http://b.example/", "ftp://a.example/",
               "http://LOCALHOST/", "http://127.0.0.1/", "http://172.16.0.1/",
               "http://172.32.0.1/", "http://[FD00::1]/", "http://["}

\* `https://${input}` for the inputs without a scheme
WithHttps(input) == IF input = "a.example" THEN "https://a.example" ELSE "https://"

Digits == {"0", "1", "2", "3", "4", "5", "6", "7", "8", "9"}
HexDigits == Digits \cup {"a", "b", "c", "d", "e", "f"}

\* 172\.(1[6-9]|2\d|3[01])\. at the start of h
Matches172(h) ==
    /\ StartsWith(h, H_172) /\ Len(h) >= 7 /\ h[7] = "."
    /\ \/ h[5] = "1" /\ h[6] \in {"6", "7", "8", "9"}
       \/ h[5] = "2" /\ h[6] \in Digits
       \/ h[5] = "3" /\ h[6] \in {"0", "1"}

\* BLOCKED_PATTERN.test(hostname) of fetch.ts; the flag i folds the case
BLOCKED_PATTERN_fetch(hostname) ==
    LET h == ToLowerCase(hostname)
    IN  \/ \E p \in {P_LOCALHOST, P_127, P_10, P_192168, P_169254, P_0000, P_V6LOOP} :
              StartsWith(h, p)
        \/ Matches172(h)

validateUrl(input) ==
    LET u == NewURL(IF IncludesSchemeSeparator(input) THEN input ELSE WithHttps(input))
    IN  IF u = None THEN [ok |-> FALSE, error |-> "Invalid URL"]
        ELSE IF u.protocol \notin {"http:", "https:"}
             THEN [ok |-> FALSE, error |-> "HTTP(S) only"]
        ELSE IF BLOCKED_PATTERN_fetch(u.hostname)
             THEN [ok |-> FALSE, error |-> "Cannot analyze local/private addresses"]
        ELSE [ok |-> TRUE, url |-> u.href]

\* fetchHtml on the outcome of fetch(proxyUrl): a rejection (network failure or
\* the 30 s abort), or a response with status, content type and body.  In the
\* FetchResult null is <<>> and a value v is <<v>>.
fetchHtml(outcome, u) ==
    IF outcome.kind = "rejected"
    THEN [html |-> <<>>, error |-> <<"Unable to connect">>, url |-> u]
    ELSE IF outcome.status \notin 200..299
    THEN [html |-> <<>>, error |-> <<"HTTP error">>, url |-> u]
    ELSE IF outcome.contentType \notin {"text/html", "text/plain", "application/xhtml+xml"}
    THEN [html |-> <<>>, error |-> <<"Invalid content type">>, url |-> u]
    ELSE IF outcome.body = None
    THEN [html |-> <<>>, error |-> <<"Server returned an empty response.">>, url |-> u]
    ELSE [html |-> <<outcome.body>>, error |-> <<>>, url |-> u]

----------------------------------------------------------------------------
\* src/src/components/ComparisonView.tsx, lines 307-334: the stored history.

\* JSON.parse(JSON.stringify(result)): NaN is written as null
JsonRoundTrip(r) ==
    IF r.semantics.landmarks.coveragePercent = NaN
    THEN [r EXCEPT !.semantics.landmarks.coveragePercent = [kind |-> "null"]]
    ELSE r

\* mutant of SliceTen: slice(0, 11)
SliceTen_KeepsEleven(s) == SubSeq(s, 1, Min2(Len(s), 11))

\* [entry, ...history].slice(0, 10)
SliceTen(s) == SubSeq(s, 1, Min2(Len(s), 10))

\* mutant of saveAnalysis: the new entry replaces the history
saveAnalysis_ReplacesHistory(hist, u, r) ==
    <<[url |-> u, result |-> JsonRoundTrip(r)]>>

\* the history after saveAnalysis(url, result); the timestamp is left out
saveAnalysis(hist, u, r) ==
    SliceTen(<<[url |-> u, result |-> JsonRoundTrip(r)]>> \o hist)

----------------------------------------------------------------------------
\* SpecRun: the home page (src/src/components/HomePage.tsx, lines 17-144).

\* most runs of SpecRun that pass validateUrl
MaxRuns == 2
\* most fetches of all the runs of SpecRun together
MaxFetches == 5

\* the choices of the sample-count menu (Dashboard.tsx, line 771)
FetchCountChoices == {1, 2, 3, 5}

\* what the user types into the URL field
UrlInputs == {"a.example", "http://LOCALHOST/", "http://["}

\* the page fetch number n (from 1) of a run answers with, when it answers with HTML
FetchedDocs == <<DocArticle, DocArticleSection, DocGeneric, DocArticleH2, EmptyDocument(FALSE)>>

\* the outcomes of fetch number n
FetchOutcomes(n) ==
    { [kind |-> "response", status |-> 200, contentType |-> "text/html",
       body |-> FetchedDocs[n]],
      [kind |-> "response", status |-> 404, contentType |-> "text/html", body |-> None] }

\* the page after mounting: the defaults of useState, then the effect that
\* shows the newest stored analysis
Mounted(hist) ==
    [url |-> IF Len(hist) > 0 THEN hist[1].url ELSE "",
     state |-> IF Len(hist) > 0
               THEN [status |-> "done", result |-> hist[1].result,
                     analyzedUrl |-> hist[1].url]
               ELSE [status |-> "idle"],
     fetchCount |-> 3,
     fetchWarnings |-> <<>>]

\* the history an earlier session may have left in localStorage
StoredHistories ==
    { <<>>,
      <<[url |-> "http://b.example/",
         result |-> JsonRoundTrip(analyze(<<DocGeneric>>, "http://b.example/"))]>> }

InitRun ==
    /\ history \in StoredHistories
    /\ page = Mounted(history)
    /\ run = None
    /\ ran = None
    /\ runs = 0 /\ fetches = 0
    /\ trees = <<>> /\ structure = None
    /\ doc = EmptyDocument(FALSE) /\ semantics = None
    /\ htmlSamples = <<>> /\ url = "" /\ result = None /\ prev = None
    /\ IdleMetrics /\ IdleCalls /\ IdleProxy /\ IdleInterpret

\* onUrlChange
SetUrl(u) ==
    /\ page.url # u
    /\ page' = [page EXCEPT !.url = u]
    /\ UNCHANGED <<history, run, ran, runs, fetches, coreVars, notPage>>

\* onFetchCountChange: the menu is part of the result view
SetFetchCount(c) ==
    /\ page.state.status = "done"
    /\ page.fetchCount # c
    /\ page' = [page EXCEPT !.fetchCount = c]
    /\ UNCHANGED <<history, run, ran, runs, fetches, coreVars, notPage>>

\* loadFromHistory(index): the menu is part of the result view
LoadFromHistory(index) ==
    /\ page.state.status = "done"
    /\ index \in DOMAIN history
    /\ page' = [page EXCEPT !.url = history[index].url,
                            !.state = [status |-> "done", result |-> history[index].result,
                                       analyzedUrl |-> history[index].url]]
    /\ UNCHANGED <<history, run, ran, runs, fetches, coreVars, notPage>>

\* onDismissWarnings
DismissWarnings ==
    /\ page.fetchWarnings # <<>>
    /\ page' = [page EXCEPT !.fetchWarnings = <<>>]
    /\ UNCHANGED <<history, run, ran, runs, fetches, coreVars, notPage>>

\* what a finished run did: its fetch results, the arguments of its calls of
\* analyze, the number of its calls of saveAnalysis, its final state
Ran(r, analyzed, saves, status) ==
    [fetchCount |-> r.fetchCount, fetched |-> r.fetched, analyzed |-> analyzed,
     saves |-> saves, status |-> status]

\* run(), up to the first await, which is the first call of fetchHtml (started
\* counts the calls of fetchHtml of the run): submit is offered with a URL and no
\* run under way
StartRun ==
    /\ run = None
    /\ page.state.status # "running"
    /\ page.url # ""
    /\ LET validation == validateUrl(page.url)
       IN  IF ~validation.ok
           THEN /\ UNCHANGED <<runs, fetches>>
                /\ page' = [page EXCEPT !.fetchWarnings = <<>>,
                                        !.state = [status |-> "error",
                                                   message |-> validation.error]]
                /\ run' = None
                /\ ran' = Ran([fetchCount |-> page.fetchCount, fetched |-> <<>>],
                              <<>>, 0, "error")
           ELSE /\ runs < MaxRuns
                /\ fetches + page.fetchCount <= MaxFetches
                /\ runs' = runs + 1
                /\ fetches' = fetches + page.fetchCount
                /\ page' = [page EXCEPT !.fetchWarnings = <<>>,
                                        !.state = [status |-> "running",
                                                   progress |-> <<0, page.fetchCount>>]]
                /\ run' = [pc |-> "fetch", url |-> validation.url,
                           fetchCount |-> page.fetchCount, i |-> 0, started |-> 1,
                           samples |-> <<>>, warnings |-> <<>>, fetched |-> <<>>]
                /\ ran' = None
    /\ UNCHANGED <<history, coreVars, notPage>>

\* mutant of pushSample: the sample is put in front (unshift)
pushSample_Prepends(samples, res) ==
    IF res.error # <<>> THEN samples
    ELSE IF res.html # <<>> THEN <<res.html[1]>> \o samples
    ELSE samples

\* mutant of pushSample: a failed fetch adds an empty sample
pushSample_KeepsFailed(samples, res) ==
    IF res.error # <<>> THEN Append(samples, EmptyDocument(FALSE))
    ELSE IF res.html # <<>> THEN Append(samples, res.html[1])
    ELSE samples

\* if (result.error) ... else if (result.html) samples.push(result.html)
pushSample(samples, res) ==
    IF res.error # <<>> THEN samples
    ELSE IF res.html # <<>> THEN Append(samples, res.html[1])
    ELSE samples

\* warnings.push(`Sample ${i + 1}: ${result.error}`)
pushWarning(warnings, i, res) ==
    IF res.error # <<>> THEN Append(warnings, <<i + 1, res.error[1]>>) ELSE warnings

\* fetch number i + 1 completes: the rest of the loop body, then either the next
\* round up to its await delay(300), or after the last fetch the statements up to
\* the await delay(200) or the return
FetchDone(outcome) ==
    /\ run # None /\ run.pc = "fetch"
    /\ LET res == fetchHtml(outcome, run.url)
           samples == pushSample(run.samples, res)
           warnings == pushWarning(run.warnings, run.i, res)
           next == [run EXCEPT !.i = run.i + 1, !.samples = samples,
                               !.warnings = warnings,
                               !.fetched = Append(run.fetched, res)]
       IN  IF next.i < run.fetchCount
           THEN /\ run' = [next EXCEPT !.pc = "delay"]
                /\ page' = [page EXCEPT !.state = [status |-> "running",
                                                   progress |-> <<next.i, run.fetchCount>>]]
                /\ ran' = ran
           ELSE IF Len(samples) = 0
           THEN /\ run' = None
                /\ page' = [page EXCEPT !.state = [status |-> "error",
                                                   message |-> "Could not fetch the URL."]]
                /\ ran' = Ran(next, <<>>, 0, "error")
           ELSE /\ run' = [next EXCEPT !.pc = "analyze"]
                /\ page' = [page EXCEPT
                              !.fetchWarnings = IF Len(warnings) > 0 THEN warnings ELSE @,
                              !.state = [status |-> "running", progress |-> <<1, 1>>]]
                /\ ran' = ran
    /\ UNCHANGED <<history, runs, fetches, coreVars, notPage>>

\* mutant of DelayDone: the promise of delay(300) never resolves
DelayDone_NeverResolves ==
    /\ run # None /\ run.pc = "delay"
    /\ UNCHANGED vars

\* after delay(300) in round i > 0: the call of fetchHtml
DelayDone ==
    /\ run # None /\ run.pc = "delay"
    /\ run' = [run EXCEPT !.pc = "fetch", !.started = run.started + 1]
    /\ UNCHANGED <<page, ran, history, runs, fetches, coreVars, notPage>>

\* after delay(200): analyze, saveAnalysis, state done.  When localStorage
\* throws (storage full or switched off), saveAnalysis catches it and the stored
\* history stays as it is.
AnalyzeAndSave(throws) ==
    /\ run # None /\ run.pc = "analyze"
    /\ LET res == analyze(run.samples, run.url)
       IN  /\ history' = IF throws THEN history ELSE saveAnalysis(history, run.url, res)
           /\ page' = [page EXCEPT !.state = [status |-> "done", result |-> res,
                                              analyzedUrl |-> run.url]]
           /\ ran' = Ran(run, <<run.samples>>, 1, "done")
    /\ run' = None
    /\ UNCHANGED <<runs, fetches, coreVars, notPage>>

NextRun ==
    \/ \E u \in UrlInputs : SetUrl(u)
    \/ \E c \in FetchCountChoices : SetFetchCount(c)
    \/ \E index \in 1..10 : LoadFromHistory(index)
    \/ DismissWarnings
    \/ StartRun
    \/ /\ run # None /\ run.pc = "fetch"
       /\ \E outcome \in FetchOutcomes(run.i + 1) : FetchDone(outcome)
    \/ DelayDone
    \/ \E throws \in BOOLEAN : AnalyzeAndSave(throws)

SpecRun == InitRun /\ [][NextRun]_vars

\* the samples of the successful fetches of a run, in fetch order
SuccessfulHtml(fetched) ==
    LET ok == SelectSeq(fetched, LAMBDA f : f.error = <<>>)
    IN  [k \in DOMAIN ok |-> ok[k].html[1]]

\* C13: a run calls analyze only with a non-empty sample list that holds the
\* results of the successful fetches and nothing else; a run whose fetchCount
\* fetches all failed ends in state error, without a call of analyze and without
\* a call of saveAnalysis.
C13_AnalyzeOnlyWithSamples ==
    /\ (run # None /\ run.pc = "analyze") =>
          /\ Len(run.samples) >= 1
          /\ run.samples = SuccessfulHtml(run.fetched)
    /\ ran # None =>
          /\ \A k \in DOMAIN ran.analyzed :
                /\ Len(ran.analyzed[k]) >= 1
                /\ ran.analyzed[k] = SuccessfulHtml(ran.fetched)
          /\ (/\ Len(ran.fetched) = ran.fetchCount
              /\ \A k \in DOMAIN ran.fetched : ran.fetched[k].error # <<>>) =>
                (ran.status = "error" /\ ran.analyzed = <<>> /\ ran.saves = 0)

\* C13 witness: a run of three fetches, all failed, ended in state error; nothing
\* was analyzed or saved
C13_Witness ==
    /\ ran # None
    /\ ran.fetchCount = 3 /\ Len(ran.fetched) = 3
    /\ \A k \in DOMAIN ran.fetched : ran.fetched[k].error # <<>>
    /\ page.state.status = "error"
    /\ ran.analyzed = <<>>
    /\ history = <<>>

\* C21: within a run the fetches go one after another: while a fetch is under
\* way it is the only one and all the earlier fetches have completed, and
\* between two fetches none is under way; the samples collected, and the samples
\* passed to analyze, are the results of the successful fetches in fetch order,
\* so the first sample is the earliest successful fetch.
C21_FetchesSequentialSamplesInOrder ==
    /\ run # None =>
          /\ run.started = Len(run.fetched) + (IF run.pc = "fetch" THEN 1 ELSE 0)
          /\ run.started <= run.fetchCount
          /\ run.samples = SuccessfulHtml(run.fetched)
    /\ ran # None =>
          \A k \in DOMAIN ran.analyzed :
              /\ ran.analyzed[k] = SuccessfulHtml(ran.fetched)
              /\ \E n \in DOMAIN ran.fetched :
                    /\ ran.fetched[n].error = <<>>
                    /\ \A m \in 1..(n - 1) : ran.fetched[m].error # <<>>
                    /\ ran.analyzed[k][1] = ran.fetched[n].html[1]

\* C21 witness: a run of three fetches whose first fetch failed and whose second
\* and third succeeded with different pages; analyze got the second page first
C21_Witness ==
    /\ ran # None /\ ran.status = "done"
    /\ Len(ran.fetched) = 3
    /\ ran.fetched[1].error # <<>>
    /\ ran.fetched[2].error = <<>> /\ ran.fetched[3].error = <<>>
    /\ ran.analyzed = <<<<DocArticleSection, DocGeneric>>>>

\* the fetchCount prop of TechnicalMetrics ("Fetches performed") and of
\* InterpretationPanel in the result view
FetchesPerformed == page.fetchCount

\* C23: while the dashboard shows the result of the last run, the fetch count it
\* shows as "Fetches performed" is the number of samples analyze got for that
\* result.
C23_ShownFetchCountIsSampleCount ==
    (/\ page.state.status = "done"
     /\ ran # None /\ ran.status = "done"
     /\ page.state.result \in
           { analyze(ran.analyzed[1], page.state.analyzedUrl),
             JsonRoundTrip(analyze(ran.analyzed[1], page.state.analyzedUrl)) })
       => FetchesPerformed = Len(ran.analyzed[1])

\* C29: a step of a run changes the stored history only when it takes the page
\* to state done, and then the history is the old one with one entry put in
\* front (the oldest beyond the tenth dropped) that holds the validated URL and
\* the result shown, as JSON stores it; a step that takes the page to state
\* error leaves the history as it is, and a run that ended in error has made no
\* call of saveAnalysis.
C29_HistoryChangesOnlyOnDone ==
    [][ /\ history' # history =>
            /\ run # None /\ run.pc = "analyze"
            /\ page'.state.status = "done"
            /\ ran'.saves = 1
            /\ page'.state.analyzedUrl = run.url
            /\ history'[1] = [url |-> run.url,
                              result |-> JsonRoundTrip(page'.state.result)]
            /\ Len(history') = Min2(Len(history) + 1, 10)
            /\ \A k \in 2..Len(history') : history'[k] = history[k - 1]
        /\ page'.state.status = "error" =>
            /\ history' = history
            /\ ran' # None => ran'.saves = 0
      ]_vars

\* C29 witness: a run ended in state done and the history holds its entry in
\* front of the entry of an earlier session
C29_Witness ==
    /\ ran # None /\ ran.status = "done" /\ ran.saves = 1
    /\ page.state.status = "done"
    /\ Len(history) = 2
    /\ history[1] = [url |-> "https://a.example/",
                     result |-> JsonRoundTrip(page.state.result)]
    /\ history[2].url = "http://b.example/"

\* fetch number i + 1 of the run completes with one of its outcomes
FetchCompletes ==
    /\ run # None /\ run.pc = "fetch"
    /\ \E outcome \in FetchOutcomes(run.i + 1) : FetchDone(outcome)

\* the page mounted on an empty stored history
InitRunFair ==
    /\ history = <<>>
    /\ page = Mounted(history)
    /\ run = None
    /\ ran = None
    /\ runs = 0 /\ fetches = 0
    /\ trees = <<>> /\ structure = None
    /\ doc = EmptyDocument(FALSE) /\ semantics = None
    /\ htmlSamples = <<>> /\ url = "" /\ result = None /\ prev = None
    /\ IdleMetrics /\ IdleCalls /\ IdleProxy /\ IdleInterpret

\* what a step of AnalyzeAndSave does to run: the run leaves await delay(200)
\* and ends
AnalyzeResumes ==
    /\ run # None /\ run.pc = "analyze"
    /\ run' = None

\* SpecRunFair: SpecRun where every call of fetchHtml completes (fetch.ts, lines
\* 32-91: it returns a FetchResult on every path and catches the rejection and
\* the abort) and the timers of delay(300) and delay(200) fire.  The steps that
\* change run from a run at "analyze" are the steps of AnalyzeAndSave.  The
\* session starts with an empty stored history.
SpecRunFair ==
    /\ InitRunFair
    /\ [][NextRun]_vars
    /\ WF_vars(FetchCompletes)
    /\ WF_vars(DelayDone)
    /\ WF_run(AnalyzeResumes)

\* C28: a run that entered state running reaches state done or state error;
\* the page is in state running only while a run is under way; with a URL in
\* the field that fails validateUrl no run starts, so no fetch is made, and the
\* submit takes the page to state error with the message of validateUrl.
C28_RunTerminates ==
    /\ (page.state.status = "running") ~> (page.state.status \in {"done", "error"})
    /\ [](page.state.status = "running" <=> run # None)
    /\ [][ (run = None /\ page.url # "" /\ ~validateUrl(page.url).ok) =>
              /\ run' = None
              /\ fetches' = fetches
              /\ ran' # ran =>
                    /\ ran'.fetched = <<>>
                    /\ page'.state = [status |-> "error",
                                      message |-> validateUrl(page.url).error]
         ]_vars

\* C28 witness: a run of two fetches, the second failed, has ended in state done
\* with its warning shown
C28_Witness ==
    /\ page.state.status = "done"
    /\ run = None
    /\ ran # None /\ ran.status = "done"
    /\ ran.fetchCount = 2 /\ Len(ran.fetched) = 2
    /\ ran.fetched[1].error = <<>> /\ ran.fetched[2].error # <<>>
    /\ page.fetchWarnings # <<>>

\* \[fc[0-9a-f]{2}: and \[fd[0-9a-f]{2}: at the start of h
MatchesUniqueLocal(h) ==
    /\ Len(h) >= 6
    /\ h[1] = "[" /\ h[2] = "f" /\ h[3] \in {"c", "d"}
    /\ h[4] \in HexDigits /\ h[5] \in HexDigits /\ h[6] = ":"

\* BLOCKED_PATTERN.test(hostname) of worker/proxy.js and vite.config.ts
BLOCKED_PATTERN(hostname) ==
    LET h == ToLowerCase(hostname)
    IN  \/ \E p \in {P_LOCALHOST, P_127, P_10, P_192168, P_169254, P_0000, P_V6LOOP,
                      P_FE80} : StartsWith(h, p)
        \/ Matches172(h)
        \/ MatchesUniqueLocal(h)

----------------------------------------------------------------------------
\* src/worker/proxy.js: the proxy worker.  src/vite.config.ts has the same
\* limiter with the same numbers (lines 10-11 and 17-33).

RATE_LIMIT_REQUESTS == 10
RATE_LIMIT_WINDOW_SECONDS == 60
windowMs == RATE_LIMIT_WINDOW_SECONDS * 1000

ALLOWED_ORIGINS ==
    {"https://docsignals.christophbauer.dev", "http://localhost:5173",
     "http://localhost:4173"}

\* env.PROXY_API_KEY
PROXY_API_KEY == "secret"

\* Math.ceil(a / b) for a >= 0
CeilDiv(a, b) == (a + b - 1) \div b

\* the Map from client IP to entry is a function that gives None where the Map
\* has no entry: rateLimitMap.set(clientIp, entry)
MapSet(map, clientIp, entry) == [map EXCEPT ![clientIp] = entry]

\* String(n) for 0 <= n < 100
DigitChar == <<"0", "1", "2", "3", "4", "5", "6", "7", "8", "9">>
String(n) ==
    IF n < 10 THEN <<DigitChar[n + 1]>>
    ELSE <<DigitChar[(n \div 10) + 1], DigitChar[(n % 10) + 1]>>

\* checkRateLimit(clientIp) at Date.now() = t: the map afterwards and the result
checkRateLimit(map, clientIp, t) ==
    LET fresh == map[clientIp] = None \/ t > map[clientIp].resetAt
        entry == IF fresh THEN [count |-> 0, resetAt |-> t + windowMs] ELSE map[clientIp]
        counted == [entry EXCEPT !.count = @ + 1]
    IN  IF counted.count > RATE_LIMIT_REQUESTS
        THEN [map |-> MapSet(map, clientIp, counted), allowed |-> FALSE,
              retryAfter |-> CeilDiv(counted.resetAt - t, 1000)]
        ELSE [map |-> MapSet(map, clientIp, counted), allowed |-> TRUE, retryAfter |-> 0]

\* request.headers.get('CF-Connecting-IP') || 'unknown'; an absent header is ""
ClientIp(req) == IF req.ip = "" THEN "unknown" ELSE req.ip

\* does the request get as far as checkRateLimit
ReachesRateLimit(req) ==
    /\ req.method # "OPTIONS"
    /\ ~(req.origin # "" /\ req.origin \notin ALLOWED_ORIGINS)
    /\ ~(req.apiKey = "" \/ req.apiKey # PROXY_API_KEY)

\* the Response of the fetch handler, given the result of checkRateLimit and the
\* outcome of fetch(targetUrl); of the headers only Retry-After is kept
WorkerResponse(req, rateCheck, outcome) ==
    LET parsedUrl == NewURL(req.target)
        reply(status, headers, checked) ==
            [ip |-> ClientIp(req), status |-> status, headers |-> headers,
             checked |-> checked]
    IN  IF req.method = "OPTIONS" THEN reply(204, {}, FALSE)
        ELSE IF req.origin # "" /\ req.origin \notin ALLOWED_ORIGINS
        THEN reply(403, {}, FALSE)
        ELSE IF req.apiKey = "" \/ req.apiKey # PROXY_API_KEY THEN reply(401, {}, FALSE)
        ELSE IF ~rateCheck.allowed
        THEN reply(429, {<<"Retry-After", String(rateCheck.retryAfter)>>}, TRUE)
        ELSE IF req.target = "" THEN reply(400, {}, TRUE)
        ELSE IF parsedUrl = None THEN reply(400, {}, TRUE)
        ELSE IF parsedUrl.protocol \notin {"http:", "https:"} THEN reply(400, {}, TRUE)
        ELSE IF BLOCKED_PATTERN(parsedUrl.hostname) THEN reply(403, {}, TRUE)
        ELSE IF outcome.kind = "throws" THEN reply(502, {}, TRUE)
        ELSE reply(outcome.status, {}, TRUE)

----------------------------------------------------------------------------
\* SpecWorker: requests to the proxy worker.

\* most advances of the clock
MaxTicks == 2
\* most requests of the observed client that reach checkRateLimit
MaxRequests == 12
\* most requests of the other clients that reach checkRateLimit
MaxOthers == 2

\* the client whose requests are counted over an interval
ObservedIp == "198.51.100.7"

WorkerRequest(method, origin, apiKey, ip, target) ==
    [method |-> method, origin |-> origin, apiKey |-> apiKey, ip |-> ip,
     target |-> target]

WorkerRequests ==
    { WorkerRequest("GET", "", "secret", ObservedIp, "https://a.example/x"),
      WorkerRequest("GET", "http://localhost:5173", "secret", "", "https://a.example/x"),
      WorkerRequest("OPTIONS", "http://localhost:5173", "", ObservedIp, ""),
      WorkerRequest("GET", "https://evil.example", "secret", ObservedIp, "https://a.example/x"),
      WorkerRequest("GET", "", "wrong", ObservedIp, "https://a.example/x"),
      WorkerRequest("GET", "", "secret", "", ""),
      WorkerRequest("GET", "", "secret", "", "http://["),
      WorkerRequest("GET", "", "secret", "", "ftp://a.example/"),
      WorkerRequest("GET", "", "secret", "", "http://[FD00::1]/") }

\* fetch(targetUrl): a response with its status, or an exception
WorkerFetchOutcomes == {[kind |-> "response", status |-> 200], [kind |-> "throws"]}

\* the keys of rateLimitMap that the requests use
ClientIps == {"unknown", ObservedIp}

\* the steps of the clock: a millisecond, a whole window
ClockSteps == {1, windowMs}

InitWorker ==
    /\ rateLimitMap = [ip \in ClientIps |-> None]
    /\ now = 0
    /\ spent = [ticks |-> 0, requests |-> 0, others |-> 0]
    /\ response = None
    /\ probe = None
    /\ request = None /\ upstream = <<>>
    /\ trees = <<>> /\ structure = None
    /\ doc = EmptyDocument(FALSE) /\ semantics = None
    /\ htmlSamples = <<>> /\ url = "" /\ result = None /\ prev = None
    /\ IdleMetrics /\ IdleCalls /\ IdlePage /\ IdleInterpret

Tick(d) ==
    /\ spent.ticks < MaxTicks
    /\ now' = now + d
    /\ spent' = [spent EXCEPT !.ticks = @ + 1]
    /\ UNCHANGED <<rateLimitMap, response, probe, request, upstream, coreVars, notProxy>>

\* the interval under observation after a request of the observed client passed:
\* it may begin with that request, and counts it while it lasts
Observe(req, rateCheck) ==
    IF ~(ReachesRateLimit(req) /\ rateCheck.allowed /\ ClientIp(req) = ObservedIp)
    THEN {probe}
    ELSE IF probe = None
    THEN {None, [from |-> now, passed |-> 1]}
    ELSE {[probe EXCEPT !.passed = @ + 1]}

\* the fetch handler, from the request to the response
WorkerFetch(req, outcome) ==
    LET rateCheck == checkRateLimit(rateLimitMap, ClientIp(req), now)
        observed == ClientIp(req) = ObservedIp
    IN  /\ ReachesRateLimit(req) =>
              IF observed THEN spent.requests < MaxRequests ELSE spent.others < MaxOthers
        /\ spent' = IF ~ReachesRateLimit(req) THEN spent
                    ELSE IF observed THEN [spent EXCEPT !.requests = @ + 1]
                    ELSE [spent EXCEPT !.others = @ + 1]
        /\ rateLimitMap' = IF ReachesRateLimit(req) THEN rateCheck.map ELSE rateLimitMap
        /\ response' = WorkerResponse(req, rateCheck, outcome)
        /\ probe' \in Observe(req, rateCheck)
        /\ UNCHANGED <<now, request, upstream, coreVars, notProxy>>

NextWorker ==
    \/ \E d \in ClockSteps : Tick(d)
    \/ \E req \in WorkerRequests, outcome \in WorkerFetchOutcomes : WorkerFetch(req, outcome)

SpecWorker == InitWorker /\ [][NextWorker]_vars

\* C15 as stated: in every interval of 60 seconds at most 10 requests of a client
\* pass checkRateLimit.
C15_AtMostTenInAnyInterval ==
    (probe # None /\ now < probe.from + 60000) => probe.passed <= 10

----------------------------------------------------------------------------
\* src/vite.config.ts: the proxy of the dev server.

MAX_REDIRECTS == 5
RATE_LIMIT_WINDOW_MS == 60000

\* checkRateLimit(clientIp) of the dev server at Date.now() = t
\* (RATE_LIMIT_REQUESTS is 10 here as in the worker)
DevCheckRateLimit(map, clientIp, t) ==
    LET fresh == map[clientIp] = None \/ t > map[clientIp].resetAt
        entry == IF fresh THEN [count |-> 0, resetAt |-> t + RATE_LIMIT_WINDOW_MS]
                 ELSE map[clientIp]
        counted == [entry EXCEPT !.count = @ + 1]
    IN  IF counted.count > RATE_LIMIT_REQUESTS
        THEN [map |-> MapSet(map, clientIp, counted), allowed |-> FALSE,
              retryAfter |-> CeilDiv(counted.resetAt - t, 1000)]
        ELSE [map |-> MapSet(map, clientIp, counted), allowed |-> TRUE, retryAfter |-> 0]

\* req.socket.remoteAddress || '127.0.0.1'; an undefined address is ""
DevClientIp(remoteAddress) == IF remoteAddress = "" THEN "127.0.0.1" ELSE remoteAddress

\* new URL(location, targetUrl) for the Location headers of the model; None when
\* it throws
NewURLWithBase(location, base) ==
    CASE location = "/x" ->
            [base EXCEPT !.href = IF base.hostname = H_A THEN "https://a.example/x"
                                  ELSE "http://b.example/x"]
      [] location = "//LOCALHOST/" ->
            [protocol |-> base.protocol, hostname |-> H_LOCALHOST,
             href |-> IF base.protocol = "https:" THEN "https://localhost/"
                      ELSE "http://localhost/"]
      [] OTHER -> NewURL(location)

\* the checks of the middleware on targetUrl: the status that ends the request,
\* 0 when the checks pass
validateTarget(targetUrl) ==
    IF targetUrl.protocol \notin {"http:", "https:"} THEN 400
    ELSE IF BLOCKED_PATTERN(targetUrl.hostname) THEN 403
    ELSE 0

\* mutant of revalidate: a redirect target is checked for its protocol only
revalidate_ProtocolOnly(nextUrl) ==
    IF nextUrl.protocol \notin {"http:", "https:"} THEN 400
    ELSE 0

\* the checks of proxyRequest on a redirect target: the status that ends the
\* request, 0 when the checks pass
revalidate(nextUrl) ==
    IF nextUrl.protocol \notin {"http:", "https:"} THEN 400
    ELSE IF BLOCKED_PATTERN(nextUrl.hostname) THEN 403
    ELSE 0

\* a request of the dev proxy: pending while an upstream request is out, done
\* when res has ended; trail lists the targets checked so far with the verdicts
Pending(targetUrl, redirectCount, trail) ==
    [phase |-> "pending", target |-> <<targetUrl>>, redirectCount |-> redirectCount,
     trail |-> trail]
Ended(redirectCount, trail) ==
    [phase |-> "done", target |-> <<>>, redirectCount |-> redirectCount, trail |-> trail]

Checked(targetUrl, verdict) == [url |-> targetUrl, passed |-> verdict = 0]

\* proxyRequest(targetUrl, res, redirectCount) up to proxyReq.end(): the request,
\* the upstream requests issued and the response afterwards
proxyRequest(targetUrl, redirectCount, trail, issued) ==
    IF redirectCount > MAX_REDIRECTS
    THEN [request |-> Ended(redirectCount, trail), upstream |-> issued,
          response |-> [status |-> 508]]
    ELSE [request |-> Pending(targetUrl, redirectCount, trail),
          upstream |-> Append(issued, targetUrl), response |-> None]

----------------------------------------------------------------------------
\* SpecDevProxy: requests to /proxy of the dev server.  A request has its own
\* res, targetUrl and redirectCount and shares only rateLimitMap with the others;
\* the model has one request in flight at a time.

\* most requests to /proxy
MaxProxied == 2

UrlParams ==
    {"", "http://[", "https://a.example/x", "ftp://a.example/", "http://172.16.0.1/"}

RemoteAddresses == {"", "127.0.0.1"}

Locations ==
    {"", "/x", "http://b.example/", "//LOCALHOST/", "ftp://a.example/", "http://[",
     "http://[FD00::1]/"}

\* proxyRes: its status and its Location header ("" when absent)
UpstreamReplies ==
    {[status |-> 200, location |-> ""], [status |-> 200, location |-> "/x"]}
    \cup {[status |-> 302, location |-> l] : l \in Locations}

\* rateLimitMap when the model begins: no entry, or nine requests counted at t = 0
InitDevProxy ==
    /\ rateLimitMap \in
          { [ip \in {"127.0.0.1"} |-> None],
            [ip \in {"127.0.0.1"} |-> [count |-> 9, resetAt |-> RATE_LIMIT_WINDOW_MS]] }
    /\ now = 0
    /\ spent = [ticks |-> 0, requests |-> 0, others |-> 0]
    /\ response = None
    /\ probe = None
    /\ request = None /\ upstream = <<>>
    /\ trees = <<>> /\ structure = None
    /\ doc = EmptyDocument(FALSE) /\ semantics = None
    /\ htmlSamples = <<>> /\ url = "" /\ result = None /\ prev = None
    /\ IdleMetrics /\ IdleCalls /\ IdlePage /\ IdleInterpret

\* the middleware of /proxy, from the request to proxyReq.end() or res.end()
DevMiddleware(remoteAddress, urlParam) ==
    LET rateCheck == DevCheckRateLimit(rateLimitMap, DevClientIp(remoteAddress), now)
        targetUrl == NewURL(urlParam)
        verdict == validateTarget(targetUrl)
        ends(status, trail) ==
            /\ request' = Ended(0, trail)
            /\ upstream' = <<>>
            /\ response' = [status |-> status]
        next == proxyRequest(targetUrl, 0, <<Checked(targetUrl, 0)>>, <<>>)
    IN  /\ IF request = None THEN TRUE ELSE request.phase = "done"
        /\ spent.requests < MaxProxied
        /\ spent' = [spent EXCEPT !.requests = @ + 1]
        /\ rateLimitMap' = rateCheck.map
        /\ IF ~rateCheck.allowed THEN ends(429, <<>>)
           ELSE IF urlParam = "" THEN ends(400, <<>>)
           ELSE IF targetUrl = None THEN ends(400, <<>>)
           ELSE IF verdict # 0 THEN ends(verdict, <<Checked(targetUrl, verdict)>>)
           ELSE /\ request' = next.request
                /\ upstream' = next.upstream
                /\ response' = next.response
        /\ UNCHANGED <<now, probe, coreVars, notProxy>>

\* the callback of client.request: the response of the upstream server
UpstreamResponse(reply) ==
    LET targetUrl == request.target[1]
        nextUrl == NewURLWithBase(reply.location, targetUrl)
        verdict == revalidate(nextUrl)
        trail == Append(request.trail, Checked(nextUrl, verdict))
        ends(status, checks) ==
            /\ request' = Ended(request.redirectCount, checks)
            /\ response' = [status |-> status]
            /\ UNCHANGED upstream
        next == proxyRequest(nextUrl, request.redirectCount + 1, trail, upstream)
    IN  /\ request # None /\ request.phase = "pending"
        /\ IF reply.status >= 300 /\ reply.status < 400 /\ reply.location # ""
           THEN IF nextUrl = None THEN ends(502, request.trail)
                ELSE IF verdict # 0 THEN ends(verdict, trail)
                ELSE /\ request' = next.request
                     /\ upstream' = next.upstream
                     /\ response' = next.response
           ELSE ends(reply.status, request.trail)
        /\ UNCHANGED <<rateLimitMap, now, spent, probe, coreVars, notProxy>>

\* proxyReq.on('timeout') and proxyReq.on('error')
UpstreamFails(status) ==
    /\ request # None /\ request.phase = "pending"
    /\ request' = Ended(request.redirectCount, request.trail)
    /\ response' = [status |-> status]
    /\ UNCHANGED <<upstream, rateLimitMap, now, spent, probe, coreVars, notProxy>>

NextDevProxy ==
    \/ \E remoteAddress \in RemoteAddresses, urlParam \in UrlParams :
          DevMiddleware(remoteAddress, urlParam)
    \/ \E reply \in UpstreamReplies : UpstreamResponse(reply)
    \/ \E status \in {502, 504} : UpstreamFails(status)

SpecDevProxy == InitDevProxy /\ [][NextDevProxy]_vars

Allowed(target) ==
    target.protocol \in {"http:", "https:"} /\ ~BLOCKED_PATTERN(target.hostname)

\* C16: every upstream request of the dev proxy goes to a target with protocol
\* http or https and a hostname outside the blocked pattern; the targets requested
\* are, in order, the url parameter and the redirect targets that passed the
\* check; a target that fails it is the last one checked, is not requested, and
\* the request has ended with 400 or 403.
C16_UpstreamTargetsAreChecked ==
    /\ \A i \in DOMAIN upstream : Allowed(upstream[i])
    /\ request # None =>
          /\ Len(upstream) <= Len(request.trail)
          /\ \A i \in DOMAIN upstream :
                request.trail[i] = [url |-> upstream[i], passed |-> TRUE]
          /\ \A k \in DOMAIN request.trail :
                ~Allowed(request.trail[k].url) =>
                    /\ k = Len(request.trail)
                    /\ Len(upstream) = k - 1
                    /\ request.phase = "done"
                    /\ response.status \in {400, 403}

\* C16 witness: two upstream requests were made, the second redirect leads to a
\* blocked hostname, and the request has ended with 403 without a third one
C16_Witness ==
    /\ request # None /\ request.phase = "done"
    /\ Len(upstream) = 2 /\ Len(request.trail) = 3
    /\ BLOCKED_PATTERN(request.trail[3].url.hostname)
    /\ response.status = 403

----------------------------------------------------------------------------
\* Further properties of checkSemantics (SpecSemantics).

\* the landmark elements without a landmark element among their ancestors
TopmostLandmarks(nodes) ==
    {i \in DOMAIN nodes :
        /\ nodes[i].localName \in {"main", "nav", "header", "footer", "aside", "article"}
        /\ \A a \in DOMAIN nodes :
              IsAncestor(nodes, a, i) =>
                  nodes[a].localName \notin
                      {"main", "nav", "header", "footer", "aside", "article"}}

\* the topmost landmarks that hold node n
CoveredBy(nodes, n) ==
    {t \in TopmostLandmarks(nodes) : t = n \/ IsAncestor(nodes, t, n)}

\* the length of the text of the nodes from n on that lie in a topmost landmark
RECURSIVE CoveredLength(_, _)
CoveredLength(nodes, n) ==
    IF n > Len(nodes) THEN 0
    ELSE (IF CoveredBy(nodes, n) # {} THEN Len(nodes[n].text) ELSE 0)
         + CoveredLength(nodes, n + 1)

\* C22: the landmark text length is the length of the text that lies in topmost
\* landmark elements; a landmark below another landmark adds nothing, no node's
\* text is counted twice, and the length never exceeds the text length of body.
C22_LandmarkTextCountsTopmostOnly ==
    semantics # None =>
        /\ \A n \in DOMAIN doc.nodes : Cardinality(CoveredBy(doc.nodes, n)) <= 1
        /\ landmarkTextOf(doc.nodes) = CoveredLength(doc.nodes, 1)
        /\ landmarkTextOf(doc.nodes) <= totalTextOf(doc)

\* C22 witness: a main with text inside a div inside a main with text has been
\* analyzed; the inner main is not counted again
C22_Witness ==
    /\ semantics # None
    /\ Len(doc.nodes) = 4
    /\ doc.nodes[2].localName = "main" /\ doc.nodes[2].text # <<>>
    /\ doc.nodes[3].localName = "div" /\ doc.nodes[3].depth = 3
    /\ doc.nodes[4].localName = "main" /\ doc.nodes[4].depth = 4
    /\ doc.nodes[4].text # <<>>
    /\ landmarkTextOf(doc.nodes) = totalTextOf(doc)

\* the gates of the classification that pass on a result
GatesPassed(sem) ==
    (IF sem.headings.h1Count = 1 /\ ~sem.headings.hasSkips THEN {"headings"} ELSE {})
    \cup (IF /\ sem.landmarks.coveragePercent.kind = "number"
             /\ sem.landmarks.coveragePercent.n >= 80 THEN {"landmarks"} ELSE {})
    \cup (IF 5 * sem.divRatio.num < 3 * sem.divRatio.den THEN {"divRatio"} ELSE {})
    \cup (IF sem.linkIssues = 0 THEN {"links"} ELSE {})

\* C25: the classification is explicit exactly when the landmark gate passes and
\* at most one of the gates headings, divRatio and links fails; it is opaque
\* exactly when at most one of the four gates passes; it is partial otherwise.
\* No result with coveragePercent below 80 is explicit.
C25_ClassificationByGates ==
    semantics # None =>
        LET passed == GatesPassed(semantics)
            explicit == "landmarks" \in passed /\ Cardinality(passed) >= 3
            opaque == Cardinality(passed) <= 1
        IN  /\ semantics.classification = "explicit" <=> explicit
            /\ semantics.classification = "opaque" <=> opaque
            /\ semantics.classification = "partial" <=> (~explicit /\ ~opaque)
            /\ "landmarks" \notin passed => semantics.classification # "explicit"

\* C25 witness: every gate but the landmark gate passes and the result is partial
C25_Witness ==
    /\ semantics # None
    /\ GatesPassed(semantics) = {"headings", "divRatio", "links"}
    /\ semantics.classification = "partial"

----------------------------------------------------------------------------
\* Further properties of compare (SpecCompare).

\* C24: treesEqual is an equivalence relation on the fingerprints compared, so
\* compare returns differenceCount 1 only for exactly two fingerprints that
\* differ; over three or more fingerprints the classification is deterministic
\* or unstable.
C24_OneDifferenceNeedsTwoFingerprints ==
    /\ \A i, j, k \in DOMAIN trees :
          /\ treesEqual(trees[i], trees[i])
          /\ treesEqual(trees[i], trees[j]) => treesEqual(trees[j], trees[i])
          /\ (treesEqual(trees[i], trees[j]) /\ treesEqual(trees[j], trees[k])) =>
                treesEqual(trees[i], trees[k])
    /\ structure # None =>
          /\ structure.differenceCount = 1 =>
                (Len(trees) = 2 /\ ~treesEqual(trees[1], trees[2]))
          /\ structure.classification = "mostly-deterministic" => Len(trees) = 2
          /\ Len(trees) >= 3 =>
                structure.classification \in {"deterministic", "unstable"}

\* C24 witness: of three fingerprints the first two are equal and the third is
\* not: two differences, unstable
C24_Witness ==
    /\ structure # None
    /\ Len(trees) = 3
    /\ trees[1] = trees[2] /\ trees[2] # trees[3]
    /\ structure.differenceCount = 2
    /\ structure.classification = "unstable"

----------------------------------------------------------------------------
\* src/src/components/HomePage.tsx, lines 149-419: generateInterpretations.
\* A template string is kept as its fixed text and the numbers put into it.

Finding(text, n, m) == [text |-> text, n |-> n, m |-> m]

Interpretation(category, finding, implication) ==
    [category |-> category, finding |-> finding, implication |-> implication]

\* mutant of headingEntries: the chain ends after the test for several h1
headingEntries_NoSkipsBranch(sem) ==
    IF sem.headings.h1Count = 1 /\ ~sem.headings.hasSkips
    THEN <<Interpretation("Semantic Headings", Finding("1 H1, sequential hierarchy", 0, 0),
                          "Document outline can be reliably parsed")>>
    ELSE IF sem.headings.h1Count = 0
    THEN <<Interpretation("Semantic Headings", Finding("No H1 element present", 0, 0),
                          "Machines cannot identify the primary topic")>>
    ELSE IF sem.headings.h1Count > 1
    THEN <<Interpretation("Semantic Headings",
                          Finding("H1 elements present", sem.headings.h1Count, 0),
                          "Multiple primary headings can create ambiguity")>>
    ELSE <<>>

\* the if / else if chain on the headings
headingEntries(sem) ==
    IF sem.headings.h1Count = 1 /\ ~sem.headings.hasSkips
    THEN <<Interpretation("Semantic Headings", Finding("1 H1, sequential hierarchy", 0, 0),
                          "Document outline can be reliably parsed")>>
    ELSE IF sem.headings.h1Count = 0
    THEN <<Interpretation("Semantic Headings", Finding("No H1 element present", 0, 0),
                          "Machines cannot identify the primary topic")>>
    ELSE IF sem.headings.h1Count > 1
    THEN <<Interpretation("Semantic Headings",
                          Finding("H1 elements present", sem.headings.h1Count, 0),
                          "Multiple primary headings can create ambiguity")>>
    ELSE IF sem.headings.hasSkips
    THEN <<Interpretation("Semantic Headings", Finding("Heading hierarchy has gaps", 0, 0),
                          "Automated tools may need to reconstruct the intended outline")>>
    ELSE <<>>

\* the chain on divRatio: divRatio > 0.6, divRatio > 0.4, else;
\* divPercent is Math.round(divRatio * 100)
markupEntries(sem) ==
    LET divPercent == RoundDiv(sem.divRatio.num * 100, sem.divRatio.den)
        finding == Finding("% generic containers", divPercent, 0)
    IN  IF 5 * sem.divRatio.num > 3 * sem.divRatio.den
        THEN <<Interpretation("Semantic Markup", finding,
                              "Structural meaning often relies on class names or visual presentation")>>
        ELSE IF 5 * sem.divRatio.num > 2 * sem.divRatio.den
        THEN <<Interpretation("Semantic Markup", finding,
                              "Balance between semantic and presentational markup")>>
        ELSE <<Interpretation("Semantic Markup", finding,
                              "Semantic elements predominate")>>

\* Math.round((a / b) * 100) as it is put into a finding
Percent(a, b) == RoundDiv(a * 100, b)

generateInterpretations(struct, sem, fetchCount) ==
    LET consistency ==
            IF struct.classification = "deterministic"
            THEN IF fetchCount = 1
                 THEN <<Interpretation("Structure Consistency",
                                       Finding("Single fetch completed", 0, 0),
                                       "Baseline captured")>>
                 ELSE <<Interpretation("Structure Consistency",
                                       Finding("Identical across fetches", fetchCount, 0),
                                       "Machines can expect consistent content representation")>>
            ELSE IF struct.classification = "mostly-deterministic"
            THEN <<Interpretation("Structure Consistency",
                                  Finding("minor variation(s) detected",
                                          struct.differenceCount, 0),
                                  "Structure is largely stable")>>
            ELSE <<Interpretation("Structure Consistency",
                                  Finding("structural difference(s) detected",
                                          struct.differenceCount, 0),
                                  "Machines may encounter varying content representations")>>
        cp == sem.landmarks.coveragePercent
        coverage == IF cp.kind = "number"
                    THEN Finding("% within semantic regions", cp.n, 0)
                    ELSE Finding("NaN% within semantic regions", 0, 0)
        landmarks ==
            IF NumGeq(cp, 80)
            THEN <<Interpretation("Semantic Landmarks", coverage,
                                  "Content regions are explicitly defined")>>
            ELSE IF NumGeq(cp, 50)
            THEN <<Interpretation("Semantic Landmarks", coverage,
                                  "Some content areas are explicitly defined")>>
            ELSE <<Interpretation("Semantic Landmarks", coverage,
                                  "Machines often need to infer content boundaries")>>
        depth ==
            IF struct.maxDepth >= 15
            THEN <<Interpretation("Structure Depth",
                                  Finding("levels of nesting", struct.maxDepth, 0),
                                  "Deep nesting may require machines to traverse multiple layers")>>
            ELSE IF struct.maxDepth >= 10
            THEN <<Interpretation("Structure Depth",
                                  Finding("levels of nesting", struct.maxDepth, 0),
                                  "Moderate nesting depth")>>
            ELSE <<>>
        sections ==
            IF struct.topLevelSections >= 3
            THEN <<Interpretation("Structure Sections",
                                  Finding("top-level sections", struct.topLevelSections, 0),
                                  "Clear top-level segmentation")>>
            ELSE IF struct.topLevelSections > 0
            THEN <<Interpretation("Structure Sections",
                                  Finding(IF struct.topLevelSections = 1
                                          THEN "top-level section" ELSE "top-level sections",
                                          struct.topLevelSections, 0),
                                  "Limited top-level segmentation")>>
            ELSE <<Interpretation("Structure Sections", Finding("No top-level sections", 0, 0),
                                  "Without explicit top-level segmentation")>>
        \* undefined > 0 is false
        shadow ==
            IF "customElements" \in DOMAIN struct /\ struct.customElements > 0
            THEN <<Interpretation("Structure Shadow DOM",
                                  Finding(IF struct.customElements = 1
                                          THEN "shadow DOM host" ELSE "shadow DOM hosts",
                                          struct.customElements, 0),
                                  "Content inside shadow DOM boundaries is not visible")>>
            ELSE <<>>
        links ==
            IF sem.linkIssues > 0
            THEN <<Interpretation("Semantic Links",
                                  Finding("non-descriptive link(s)", sem.linkIssues, 0),
                                  "Link purpose may need to be inferred")>>
            ELSE <<Interpretation("Semantic Links",
                                  Finding("All links have descriptive text", 0, 0),
                                  "Link destinations can be understood")>>
        te == sem.timeElements
        time ==
            IF te.total > 0
            THEN IF te.withDatetime = te.total
                 THEN <<Interpretation("Semantic Time",
                                       Finding(IF te.total = 1 THEN "time element with datetime"
                                               ELSE "time elements with datetime", te.total, 0),
                                       "Machine-readable timestamps")>>
                 ELSE IF te.withDatetime > 0
                 THEN <<Interpretation("Semantic Time",
                                       Finding("time elements with datetime",
                                               te.withDatetime, te.total),
                                       "Some timestamps are machine-readable")>>
                 ELSE <<Interpretation("Semantic Time",
                                       Finding(IF te.total = 1
                                               THEN "time element without datetime"
                                               ELSE "time elements without datetime",
                                               te.total, 0),
                                       "Time elements lack machine-readable datetime attributes")>>
            ELSE <<>>
        lists ==
            IF sem.lists.total > 0
            THEN <<Interpretation("Semantic Lists",
                                  Finding(IF sem.lists.total = 1 THEN "list structure"
                                          ELSE "list structures", sem.lists.total, 0),
                                  "List markup signals enumerable content")>>
            ELSE <<>>
        withoutHeaders == sem.tables.total - sem.tables.withHeaders
        tables ==
            IF sem.tables.total > 0 /\ withoutHeaders > 0
            THEN <<Interpretation("Semantic Tables",
                                  Finding(IF withoutHeaders = 1
                                          THEN "table without header markup"
                                          ELSE "tables without header markup",
                                          withoutHeaders, 0),
                                  "Tables without header markup require machines to infer")>>
            ELSE <<>>
        language ==
            IF sem.langAttribute
            THEN <<Interpretation("Semantic Language", Finding("Language declared", 0, 0),
                                  "Language declaration allows machines to apply rules")>>
            ELSE <<Interpretation("Semantic Language", Finding("No language declared", 0, 0),
                                  "Without a lang attribute")>>
        im == sem.images
        altCoverage ==
            IF im.missingAlt = 0
            THEN <<Interpretation("Image Accessibility",
                                  Finding("All images have alt attributes", 0, 0),
                                  "Machines can distinguish between meaningful images and decorative ones")>>
            ELSE IF im.missingAlt > 0
            THEN <<Interpretation("Image Accessibility",
                                  Finding(IF im.missingAlt = 1
                                          THEN "image missing alt attribute"
                                          ELSE "images missing alt attribute",
                                          im.missingAlt, Percent(im.missingAlt, im.total)),
                                  "Machines cannot determine whether these images convey meaning")>>
            ELSE <<>>
        context ==
            IF im.inFigure > 0
            THEN <<Interpretation("Image Context",
                                  Finding(IF im.inFigure = 1 THEN "image in figure elements"
                                          ELSE "images in figure elements",
                                          im.inFigure, Percent(im.inFigure, im.total)),
                                  "Figure markup provides semantic grouping")>>
            ELSE <<>>
        decorative ==
            IF im.emptyAlt > 0 /\ im.withAlt > 0
            THEN <<Interpretation("Image Classification",
                                  Finding(IF im.emptyAlt = 1
                                          THEN "meaningful, decorative image"
                                          ELSE "meaningful, decorative images",
                                          im.withAlt, im.emptyAlt),
                                  "Clear distinction between content images and decorative elements")>>
            ELSE <<>>
        images == IF im.total > 0 THEN altCoverage \o context \o decorative ELSE <<>>
    IN  consistency \o headingEntries(sem) \o landmarks \o depth \o sections \o shadow
        \o markupEntries(sem) \o links \o time \o lists \o tables \o language \o images

----------------------------------------------------------------------------
\* SpecInterpret: generateInterpretations applied to results of compare and
\* checkSemantics.  The results begin as one of two results and are changed one
\* measured field at a time; the classification follows the fields.

\* most changes of a field
MaxEdits == 2

\* checkSemantics from the measured fields on (part_002, lines 157-193)
classified(f) ==
    [f EXCEPT !.classification =
        classifyScore(semanticScore(f.headings.h1Count, f.headings.hasSkips,
                                    f.landmarks.coveragePercent, f.divRatio,
                                    f.linkIssues))]

NoImages ==
    [total |-> 0, withAlt |-> 0, emptyAlt |-> 0, missingAlt |-> 0, inFigure |-> 0,
     withDimensions |-> 0, withSrcset |-> 0, withLazyLoading |-> 0]

\* the result for a document that passes every gate, and for one that passes none
SemanticsBases ==
    { classified(
        [classification |-> "",
         headings |-> [h1Count |-> 1, hasSkips |-> FALSE],
         landmarks |-> [found |-> <<"main">>, coveragePercent |-> Num(100)],
         divRatio |-> [num |-> 0, den |-> 2],
         linkIssues |-> 0,
         timeElements |-> [total |-> 0, withDatetime |-> 0],
         lists |-> [total |-> 0, ordered |-> 0, unordered |-> 0, description |-> 0],
         tables |-> [total |-> 0, withHeaders |-> 0],
         langAttribute |-> TRUE,
         images |-> NoImages]),
      classified(
        [classification |-> "",
         headings |-> [h1Count |-> 0, hasSkips |-> TRUE],
         landmarks |-> [found |-> <<>>, coveragePercent |-> Num(0)],
         divRatio |-> [num |-> 2, den |-> 3],
         linkIssues |-> 2,
         timeElements |-> [total |-> 0, withDatetime |-> 0],
         lists |-> [total |-> 0, ordered |-> 0, unordered |-> 0, description |-> 0],
         tables |-> [total |-> 0, withHeaders |-> 0],
         langAttribute |-> FALSE,
         images |-> NoImages]) }

\* the results that differ from sem in one measured field
SemanticsVariants(sem) ==
    {[sem EXCEPT !.headings = [h1Count |-> n, hasSkips |-> s]] :
        n \in 0..2, s \in BOOLEAN}
    \cup {[sem EXCEPT !.landmarks.coveragePercent = cp] :
            cp \in {NaN, Num(0), Num(50), Num(79), Num(80), Num(100)}}
    \cup {[sem EXCEPT !.divRatio = r] :
            r \in {[num |-> 0, den |-> 2], [num |-> 2, den |-> 5],
                   [num |-> 3, den |-> 5], [num |-> 2, den |-> 3]}}
    \cup {[sem EXCEPT !.linkIssues = n] : n \in {0, 2}}
    \cup {[sem EXCEPT !.timeElements = t] :
            t \in {[total |-> 1, withDatetime |-> 1], [total |-> 2, withDatetime |-> 1],
                   [total |-> 1, withDatetime |-> 0]}}
    \cup {[sem EXCEPT !.lists = [total |-> 1, ordered |-> 1, unordered |-> 0,
                                 description |-> 0]]}
    \cup {[sem EXCEPT !.tables = t] :
            t \in {[total |-> 1, withHeaders |-> 1], [total |-> 2, withHeaders |-> 1]}}
    \cup {[sem EXCEPT !.langAttribute = ~@]}
    \cup {[sem EXCEPT !.images = im] :
            im \in {[NoImages EXCEPT !.total = 2, !.withAlt = 1, !.emptyAlt = 1],
                    [NoImages EXCEPT !.total = 2, !.withAlt = 1, !.missingAlt = 1,
                                     !.inFigure = 1]}}

\* the result of compare the model begins with
StructureBase ==
    compare(<<[tag |-> "body", childTags |-> <<>>]>>,
            [domNodes |-> 3, maxDepth |-> 2, topLevelSections |-> 0])

\* the results that differ from struct in one field; customElements is a field
\* of the declared type that compare does not set
StructureVariants(struct) ==
    {[struct EXCEPT !.classification = c[1], !.differenceCount = c[2]] :
        c \in {<<"deterministic", 0>>, <<"mostly-deterministic", 1>>, <<"unstable", 3>>}}
    \cup {[struct EXCEPT !.maxDepth = d] : d \in {10, 15}}
    \cup {[struct EXCEPT !.topLevelSections = n] : n \in {1, 3}}
    \cup {[customElements |-> n] @@ struct : n \in {0, 2}}

InitInterpret ==
    /\ structure = StructureBase
    /\ semantics \in SemanticsBases
    /\ interpretations = None
    /\ edits = 0
    /\ trees = <<>>
    /\ doc = EmptyDocument(FALSE)
    /\ htmlSamples = <<>> /\ url = "" /\ result = None /\ prev = None
    /\ IdleMetrics /\ IdleCalls /\ IdlePage /\ IdleProxy

EditSemantics(sem) ==
    /\ interpretations = None
    /\ edits < MaxEdits
    /\ classified(sem) # semantics
    /\ semantics' = classified(sem)
    /\ edits' = edits + 1
    /\ UNCHANGED <<structure, interpretations, trees, doc, analyzeVars, notInterpret>>

EditStructure(struct) ==
    /\ interpretations = None
    /\ edits < MaxEdits
    /\ struct # structure
    /\ structure' = struct
    /\ edits' = edits + 1
    /\ UNCHANGED <<semantics, interpretations, trees, doc, analyzeVars, notInterpret>>

\* the interpretation panel renders
Interpret(fetchCount) ==
    /\ interpretations = None
    /\ interpretations' = [fetchCount |-> fetchCount,
                           list |-> generateInterpretations(structure, semantics, fetchCount)]
    /\ UNCHANGED <<structure, semantics, edits, trees, doc, analyzeVars, notInterpret>>

NextInterpret ==
    \/ \E sem \in SemanticsVariants(semantics) : EditSemantics(sem)
    \/ \E struct \in StructureVariants(structure) : EditStructure(struct)
    \/ \E fetchCount \in FetchCountChoices : Interpret(fetchCount)

SpecInterpret == InitInterpret /\ [][NextInterpret]_vars

----------------------------------------------------------------------------
\* Properties of generateInterpretations (SpecInterpret).

\* C26 as stated: the divRatio gate of checkSemantics fails (divRatio >= 0.6)
\* exactly when the list holds the Semantic Markup entry whose implication is
\* that structural meaning relies on class names or visual presentation.
C26_MarkupImplicationMatchesGate ==
    interpretations # None =>
        ("divRatio" \notin GatesPassed(semantics)
         <=> \E i \in DOMAIN interpretations.list :
                /\ interpretations.list[i].category = "Semantic Markup"
                /\ interpretations.list[i].implication =
                      "Structural meaning often relies on class names or visual presentation")

\* the categories in the order of the code; the first list holds the position of
\* those every result has
CategoryOrder ==
    <<"Structure Consistency", "Semantic Headings", "Semantic Landmarks",
      "Structure Depth", "Structure Sections", "Structure Shadow DOM",
      "Semantic Markup", "Semantic Links", "Semantic Time", "Semantic Lists",
      "Semantic Tables", "Semantic Language", "Image Accessibility", "Image Context",
      "Image Classification">>
RequiredCategories ==
    <<"Structure Consistency", "Semantic Headings", "Semantic Landmarks",
      "Structure Sections", "Semantic Markup", "Semantic Links", "Semantic Language">>

PositionOf(category) == CHOOSE k \in DOMAIN CategoryOrder : CategoryOrder[k] = category

\* C27: the list holds exactly one entry of each of the seven categories
\* Structure Consistency, Semantic Headings, Semantic Landmarks, Structure
\* Sections, Semantic Markup, Semantic Links, Semantic Language, in this order;
\* the other entries are of the optional categories, each at most once and at its
\* place in the fixed order; the list is the one the function gives for the
\* three arguments.
C27_InterpretationsAreOrderedAndComplete ==
    interpretations # None =>
        LET list == interpretations.list
            categories == [i \in DOMAIN list |-> list[i].category]
        IN  /\ \A i \in DOMAIN list : categories[i] \in Range(CategoryOrder)
            /\ \A i, j \in DOMAIN list :
                  i < j => PositionOf(categories[i]) < PositionOf(categories[j])
            /\ SelectSeq(categories, LAMBDA c : c \in Range(RequiredCategories))
                  = RequiredCategories
            /\ list = generateInterpretations(structure, semantics,
                                              interpretations.fetchCount)

\* C27 witness: a list for one h1 with heading skips, with the optional entry
\* for the depth in it
C27_Witness ==
    /\ interpretations # None
    /\ semantics.headings = [h1Count |-> 1, hasSkips |-> TRUE]
    /\ Len(interpretations.list) = 8
    /\ interpretations.list[2].finding.text = "Heading hierarchy has gaps"
    /\ interpretations.list[4].category = "Structure Depth"

----------------------------------------------------------------------------
\* SpecHistory: the calls of saveAnalysis and clearAnalysisHistory on the stored
\* history (src/src/components/ComparisonView.tsx, lines 307-334).  Here ran
\* holds the last call and the history it found.

\* the arguments of the calls of saveAnalysis; the second result holds a NaN
HistoryInputs ==
    { [url |-> "https://a.example/", result |-> analyze(<<DocArticle>>, "https://a.example/")],
      [url |-> "http://b.example/",
       result |-> analyze(<<EmptyDocument(FALSE)>>, "http://b.example/")] }

InitHistory ==
    /\ history = <<>>
    /\ page = None /\ run = None /\ ran = None /\ runs = 0 /\ fetches = 0
    /\ trees = <<>> /\ structure = None
    /\ doc = EmptyDocument(FALSE) /\ semantics = None
    /\ htmlSamples = <<>> /\ url = "" /\ result = None /\ prev = None
    /\ IdleMetrics /\ IdleCalls /\ IdleProxy /\ IdleInterpret

\* a call saveAnalysis(u, r); when localStorage throws the call changes nothing
SaveAnalysisCall(u, r, throws) ==
    /\ history' = IF throws THEN history ELSE saveAnalysis(history, u, r)
    /\ ran' = [call |-> "saveAnalysis", url |-> u, throws |-> throws, before |-> history]
    /\ UNCHANGED <<page, run, runs, fetches, coreVars, notPage>>

\* a call clearAnalysisHistory(): removeItem, after which getAnalysisHistory
\* returns []
clearAnalysisHistory ==
    /\ history' = <<>>
    /\ ran' = [call |-> "clearAnalysisHistory", url |-> "", throws |-> FALSE,
               before |-> history]
    /\ UNCHANGED <<page, run, runs, fetches, coreVars, notPage>>

NextHistory ==
    \/ \E c \in HistoryInputs : \E throws \in BOOLEAN :
          SaveAnalysisCall(c.url, c.result, throws)
    \/ clearAnalysisHistory

SpecHistory == InitHistory /\ [][NextHistory]_vars

\* C30: the stored history never has more than 10 entries; a call of
\* saveAnalysis whose write succeeds puts the new entry (as JSON stores it) at
\* the front, keeps the entries it found in their order behind it and drops only
\* those beyond the tenth; a call of clearAnalysisHistory leaves an empty history.
C30_HistoryNewestFirstAtMostTen ==
    /\ [](Len(history) <= 10)
    /\ [][ /\ clearAnalysisHistory => history' = <<>>
           /\ \A c \in HistoryInputs :
                 /\ SaveAnalysisCall(c.url, c.result, FALSE) =>
                       /\ history'[1] = [url |-> c.url, result |-> JsonRoundTrip(c.result)]
                       /\ Len(history') = Min2(Len(history) + 1, 10)
                       /\ \A k \in 2..Len(history') : history'[k] = history[k - 1]
                 /\ SaveAnalysisCall(c.url, c.result, TRUE) => history' = history
         ]_vars

\* C30 witness: saveAnalysis found ten entries, the oldest of them the only one
\* of b.example; it has put the new entry in front and dropped that oldest one
C30_Witness ==
    /\ ran # None /\ ran.call = "saveAnalysis" /\ ~ran.throws
    /\ Len(ran.before) = 10
    /\ ran.before[10].url = "http://b.example/"
    /\ ran.before[10].result.semantics.landmarks.coveragePercent = [kind |-> "null"]
    /\ \A k \in 1..9 : ran.before[k].url = "https://a.example/"
    /\ Len(history) = 10
    /\ \A k \in 1..10 : history[k].url = "https://a.example/"

====
